---- MODULE Spec2Model ----
(***************************************************************************)
(* A model of oewn_rs: the SQLite-backed WordNet store.                    *)
(*                                                                         *)
(*   - db.rs      populate_database (three passes inside one transaction)  *)
(*                and the enum <-> TEXT conversions used for storage;      *)
(*   - lib.rs     the WordNet query methods: the SQL of each query as the  *)
(*                set of its join rows, and the in-process aggregation of  *)
(*                those rows back into LexicalEntry / Sense / Synset.      *)
(*                                                                         *)
(* Strings are TLA+ strings; to_lowercase works on their characters.       *)
(* Enum values are named by their Rust variant names, which is also what   *)
(* the derived Debug implementation prints.                                *)
(***************************************************************************)
EXTENDS Naturals, Sequences, FiniteSets, TLC

VARIABLES
    resource,   \* the parsed LexicalResource handed to populate_database
    db,         \* the committed content of the SQLite tables
    tx,         \* the tables as seen inside the open transaction, or NoTx
    pc,         \* where populate_database stands
    result,     \* the last query made on the WordNet handle and what it returned
    codec,      \* a relation kind on its way through the storage conversions
    foreign_keys, \* whether the SQLite of this build enforces FOREIGN KEY clauses
    load,       \* load_with_options: its options, what it found on disk, its position
    mutex,      \* the Mutex around the connection: locked or not
    threads     \* the threads that hold a clone of the WordNet handle

vars == <<resource, db, tx, pc, result, codec, foreign_keys, load, mutex, threads>>

(***************************************************************************)
(* Bounds of the model.                                                    *)
(***************************************************************************)
\* Lexical entries of a resource in the lemma family.
MaxEntries == 2
\* Senses of a resource in the membership family.
MaxSenses == 2
\* Relations declared by one sense or one synset in the relation family.
MaxRelations == 2

(***************************************************************************)
(* Option and SQL NULL.                                                    *)
(***************************************************************************)
\* Rust's Option::None (every optional value of the model is a string).
None == "<None>"
\* The NULL an outer join yields for the columns of a missing child row.
NULL == "<NULL>"

(***************************************************************************)
(* Strings.                                                                *)
(***************************************************************************)
CharAt(s, i) == SubSeq(s, i, i)

\* char::to_lowercase on the ASCII letters the model uses.
LowerChar(c) ==
    LET UpperChars == "ABCDEFGHIJKLMNOPQRSTUVWXYZ"
        LowerChars == "abcdefghijklmnopqrstuvwxyz"
    IN IF \E i \in 1..Len(UpperChars) : CharAt(UpperChars, i) = c
       THEN CharAt(LowerChars,
                   CHOOSE i \in 1..Len(UpperChars) : CharAt(UpperChars, i) = c)
       ELSE c

RECURSIVE LowerFrom(_, _)
LowerFrom(s, i) ==
    IF i > Len(s) THEN "" ELSE LowerChar(CharAt(s, i)) \o LowerFrom(s, i + 1)

\* str::to_lowercase: every character folded, in order.
ToLowercase(s) == LowerFrom(s, 1)

\* str::split_whitespace: the maximal runs of non-whitespace characters.
RECURSIVE SplitFrom(_, _, _)
SplitFrom(s, i, word) ==
    IF i > Len(s)
    THEN IF word = "" THEN <<>> ELSE <<word>>
    ELSE IF CharAt(s, i) = " "
         THEN (IF word = "" THEN <<>> ELSE <<word>>) \o SplitFrom(s, i + 1, "")
         ELSE SplitFrom(s, i + 1, word \o CharAt(s, i))

\* models::parse_members
parse_members(members_str) == SplitFrom(members_str, 1, "")

Range(s) == {s[i] : i \in 1..Len(s)}

\* A set as a Vec, in some order (HashMap::into_values().collect()).
RECURSIVE SetToSeq(_)
SetToSeq(S) ==
    IF S = {} THEN <<>>
    ELSE LET x == CHOOSE y \in S : TRUE IN <<x>> \o SetToSeq(S \ {x})

(***************************************************************************)
(* The enumerations of models.rs, by variant name.                         *)
(***************************************************************************)
PartOfSpeech == {"N", "V", "A", "R", "S", "C", "P", "X", "U"}

SenseRelType ==
    {"Antonym", "Also", "Participle", "Pertainym", "Derivation", "DomainTopic",
     "DomainMemberTopic", "DomainRegion", "DomainMemberRegion", "Exemplifies",
     "IsExemplifiedBy", "Other"}

SynsetRelType ==
    {"Hypernym", "Hyponym", "InstanceHypernym", "InstanceHyponym", "MeroMember",
     "MeroPart", "MeroSubstance", "HoloMember", "HoloPart", "HoloSubstance",
     "Entails", "Causes", "Similar", "Attribute", "DomainRegion", "DomainTopic",
     "HasDomainRegion", "HasDomainTopic", "Exemplifies", "IsExemplifiedBy",
     "Agent", "Also", "AntoConverse", "AntoGradable", "AntoSimple", "Antonym",
     "Augmentative", "BeInState", "ClassifiedBy", "Classifies",
     "CoAgentInstrument", "CoAgentPatient", "CoAgentResult", "CoInstrumentAgent",
     "CoInstrumentPatient", "CoInstrumentResult", "CoPatientAgent",
     "CoPatientInstrument", "CoResultAgent", "CoResultInstrument", "CoRole",
     "Constitutive", "Derivation", "Diminutive", "Direction", "Domain",
     "EqSynonym", "Feminine", "HasAugmentative", "HasDiminutive", "HasDomain",
     "HasFeminine", "HasMasculine", "HasYoung", "HoloLocation", "HoloPortion",
     "Holonym", "InManner", "Instrument", "Involved", "InvolvedAgent",
     "InvolvedDirection", "InvolvedInstrument", "InvolvedLocation",
     "InvolvedPatient", "InvolvedResult", "InvolvedSourceDirection",
     "InvolvedTargetDirection", "IrSynonym", "IsCausedBy", "IsEntailedBy",
     "IsSubeventOf", "Location", "MannerOf", "Masculine", "MeroLocation",
     "MeroPortion", "Meronym", "Other", "Participle", "Patient", "Pertainym",
     "RestrictedBy", "Restricts", "Result", "Role", "SecondaryAspectIp",
     "SecondaryAspectPi", "SimpleAspectIp", "SimpleAspectPi", "SourceDirection",
     "StateOf", "Subevent", "TargetDirection", "Young", "Unknown"}

\* #[derive(Debug)] on a field-less enum prints the variant's name.
DebugFmt(variant) == variant

(***************************************************************************)
(* Result<T, OewnError>.                                                   *)
(***************************************************************************)
Ok(v) == [ok |-> TRUE, val |-> v]
Err(kind, arg) == [ok |-> FALSE, err |-> [kind |-> kind, arg |-> arg]]

(***************************************************************************)
(* db.rs: the conversions between enums and the TEXT columns.              *)
(***************************************************************************)
part_of_speech_to_string(pos) ==
    CASE pos = "N" -> "n" [] pos = "V" -> "v" [] pos = "A" -> "a"
      [] pos = "R" -> "r" [] pos = "S" -> "s" [] pos = "C" -> "c"
      [] pos = "P" -> "p" [] pos = "X" -> "x" [] pos = "U" -> "u"

string_to_part_of_speech(s) ==
    CASE s = "n" -> Ok("N") [] s = "v" -> Ok("V") [] s = "a" -> Ok("A")
      [] s = "r" -> Ok("R") [] s = "s" -> Ok("S") [] s = "c" -> Ok("C")
      [] s = "p" -> Ok("P") [] s = "x" -> Ok("X") [] s = "u" -> Ok("U")
      [] OTHER -> Err("ParseError", s)

\* format!("{:?}", rel_type).to_lowercase()
sense_rel_type_to_string(rel_type) == ToLowercase(DebugFmt(rel_type))

string_to_sense_rel_type(s) ==
    CASE s = "antonym" -> Ok("Antonym")
      [] s = "also" -> Ok("Also")
      [] s = "participle" -> Ok("Participle")
      [] s = "pertainym" -> Ok("Pertainym")
      [] s = "derivation" -> Ok("Derivation")
      [] s = "domain_topic" -> Ok("DomainTopic")
      [] s = "domain_member_topic" -> Ok("DomainMemberTopic")
      [] s = "domain_region" -> Ok("DomainRegion")
      [] s = "domain_member_region" -> Ok("DomainMemberRegion")
      [] s = "exemplifies" -> Ok("Exemplifies")
      [] s = "is_exemplified_by" -> Ok("IsExemplifiedBy")
      [] OTHER -> Ok("Other")

\* format!("{:?}", rel_type).to_lowercase()
synset_rel_type_to_string(rel_type) == ToLowercase(DebugFmt(rel_type))

string_to_synset_rel_type(s) ==
    CASE s = "hypernym" -> Ok("Hypernym")
      [] s = "hyponym" -> Ok("Hyponym")
      [] s = "instance_hypernym" -> Ok("InstanceHypernym")
      [] s = "instance_hyponym" -> Ok("InstanceHyponym")
      [] s = "mero_member" -> Ok("MeroMember")
      [] s = "mero_part" -> Ok("MeroPart")
      [] s = "mero_substance" -> Ok("MeroSubstance")
      [] s = "holo_member" -> Ok("HoloMember")
      [] s = "holo_part" -> Ok("HoloPart")
      [] s = "holo_substance" -> Ok("HoloSubstance")
      [] s = "entails" -> Ok("Entails")
      [] s = "causes" -> Ok("Causes")
      [] s = "similar" -> Ok("Similar")
      [] s = "attribute" -> Ok("Attribute")
      [] s = "domain_region" -> Ok("DomainRegion")
      [] s = "domain_topic" -> Ok("DomainTopic")
      [] s = "has_domain_region" -> Ok("HasDomainRegion")
      [] s = "has_domain_topic" -> Ok("HasDomainTopic")
      [] s = "exemplifies" -> Ok("Exemplifies")
      [] s = "is_exemplified_by" -> Ok("IsExemplifiedBy")
      [] OTHER -> Ok("Unknown")

(***************************************************************************)
(* String order (str::cmp on the ASCII characters the model uses).         *)
(***************************************************************************)
CharRank(c) ==
    LET AsciiOrder == " -0123456789ABCDEFGHIJKLMNOPQRSTUVWXYZ_abcdefghijklmnopqrstuvwxyz"
    IN IF \E i \in 1..Len(AsciiOrder) : CharAt(AsciiOrder, i) = c
       THEN CHOOSE i \in 1..Len(AsciiOrder) : CharAt(AsciiOrder, i) = c
       ELSE 0

RECURSIVE StrLessFrom(_, _, _)
StrLessFrom(a, b, i) ==
    IF i > Len(b) THEN FALSE
    ELSE IF i > Len(a) THEN TRUE
    ELSE IF CharRank(CharAt(a, i)) < CharRank(CharAt(b, i)) THEN TRUE
    ELSE IF CharRank(CharAt(a, i)) > CharRank(CharAt(b, i)) THEN FALSE
    ELSE StrLessFrom(a, b, i + 1)

StrLess(a, b) == StrLessFrom(a, b, 1)

\* senses.sort_by(|a, b| a.id.cmp(&b.id)) applied to the values of a map keyed by id.
RECURSIVE SortById(_)
SortById(S) ==
    IF S = {} THEN <<>>
    ELSE LET m == CHOOSE x \in S : \A y \in S : y.id = x.id \/ StrLess(x.id, y.id)
         IN <<m>> \o SortById(S \ {m})

RECURSIVE FoldSeq(_, _, _)
FoldSeq(Op(_, _), acc, seq) ==
    IF seq = <<>> THEN acc ELSE FoldSeq(Op, Op(acc, Head(seq)), Tail(seq))

(***************************************************************************)
(* models.rs: the parsed records.  A Lexicon keeps its id only: no query   *)
(* reads the other columns of the lexicons table.                          *)
(***************************************************************************)
Lexicon(id, entries, synsets) ==
    [id |-> id, lexical_entries |-> entries, synsets |-> synsets]

LexicalEntry(id, written_form, pos, prons, senses) ==
    [id |-> id,
     lemma |-> [written_form |-> written_form, part_of_speech |-> pos],
     pronunciations |-> prons,
     senses |-> senses]

Pronunciation(variety, notation, phonemic, audio, text) ==
    [variety |-> variety, notation |-> notation, phonemic |-> phonemic,
     audio |-> audio, text |-> text]

Sense(id, synset, rels) == [id |-> id, synset |-> synset, sense_relations |-> rels]

SenseRelation(rel_type, target) == [rel_type |-> rel_type, target |-> target]

\* ili_definition is an Option: the empty sequence, or a sequence of one record.
Synset(id, ili, pos, members, defs, ili_def, rels, examples) ==
    [id |-> id, ili |-> ili, part_of_speech |-> pos, members |-> members,
     definitions |-> defs, ili_definition |-> ili_def,
     synset_relations |-> rels, examples |-> examples]

Definition(text) == [dc_source |-> None, text |-> text]

SynsetRelation(rel_type, target) == [rel_type |-> rel_type, target |-> target]

LexicalResource(lexicons) == [lexicons |-> lexicons]

(***************************************************************************)
(* The resources the model loads: four families, each varying one part of  *)
(* a small two-synset lexicon.                                             *)
(***************************************************************************)
PronGB == Pronunciation("en-GB-fonipa", None, TRUE, "cat.flac", "kat")
PronUS == Pronunciation("en-US-fonipa", "ipa", FALSE, None, "kaet")

PlainSynset(id, members, rels) ==
    Synset(id, None, "N", members, <<Definition("a concept")>>, <<>>, rels, <<>>)

SeqsUpTo(S, n) == UNION {[1..k -> S] : k \in 0..n}

\* Lemma family: up to MaxEntries entries, each with one of the lemmas, each owning
\* one sense of syn1.
LemmaResources ==
    LET EntryIds == <<"w1", "w2", "w3", "w4">>
        Lemmas == {<<"cat", "N">>, <<"Cat", "N">>, <<"cat", "V">>, <<"dog", "N">>}
    IN
    {LexicalResource(<<Lexicon("oewn",
        [i \in 1..Len(f) |->
            LexicalEntry(EntryIds[i], f[i][1], f[i][2],
                         IF i = 1 THEN <<PronGB, PronUS>> ELSE <<>>,
                         <<Sense(<<"s1", "s2", "s3", "s4">>[i], "syn1", <<>>)>>)],
        <<PlainSynset("syn1", "w1 w2", <<>>), PlainSynset("syn2", "", <<>>)>>)>>)
     : f \in SeqsUpTo(Lemmas, MaxEntries)}

\* Membership family: up to MaxSenses senses, each owned by w1 or w2 and aimed at
\* syn1 or syn2, under several members attributes of syn1.
SensesOwnedBy(g, i) ==
    LET js == SelectSeq([j \in 1..Len(g) |-> j], LAMBDA j : g[j][1] = i)
    IN [k \in 1..Len(js) |-> Sense(<<"s1", "s2", "s3", "s4">>[js[k]], g[js[k]][2], <<>>)]

MembershipResources ==
    LET MemberLists == {"w1", "w1 w2", " w2  w1 "}
    IN
    {LexicalResource(<<Lexicon("oewn",
        <<LexicalEntry("w1", "cat", "N", <<PronGB>>, SensesOwnedBy(g, 1)),
          LexicalEntry("w2", "dog", "N", <<>>, SensesOwnedBy(g, 2))>>,
        <<PlainSynset("syn1", m1, <<>>), PlainSynset("syn2", "w2", <<>>)>>)>>)
     : g \in SeqsUpTo({1, 2} \X {"syn1", "syn2"}, MaxSenses), m1 \in MemberLists}

\* Relation family: three senses and two synsets; the relations declared by s1 and
\* s2, or by syn1 and syn2, vary.
RelationResource(r1, r2, y1, y2) ==
    LexicalResource(<<Lexicon("oewn",
        <<LexicalEntry("w1", "cat", "N", <<PronGB>>, <<Sense("s1", "syn1", r1)>>),
          LexicalEntry("w2", "dog", "N", <<>>,
                       <<Sense("s2", "syn2", r2), Sense("s3", "syn1", <<>>)>>)>>,
        <<PlainSynset("syn1", "w1 w2", y1), PlainSynset("syn2", "w2", y2)>>)>>)

RelationResources ==
    LET SenseRelChoices ==
            {SenseRelation("Antonym", "s2"), SenseRelation("Antonym", "s3"),
             SenseRelation("DomainTopic", "s2"), SenseRelation("Other", "s3")}
        SenseRelChoices2 ==
            {<<SenseRelation("Antonym", "s1")>>, <<SenseRelation("DomainTopic", "s3")>>}
        SynsetRelChoices ==
            {SynsetRelation("Hypernym", "syn2"), SynsetRelation("InstanceHypernym", "syn2"),
             SynsetRelation("Hypernym", "syn1"), SynsetRelation("Unknown", "syn2")}
        SynsetRelChoices2 == {<<>>, <<SynsetRelation("Hyponym", "syn1")>>}
    IN
    {RelationResource(r1, r2, <<>>, <<>>)
        : r1 \in SeqsUpTo(SenseRelChoices, MaxRelations), r2 \in SenseRelChoices2}
    \cup
    {RelationResource(<<>>, <<>>, y1, y2)
        : y1 \in SeqsUpTo(SynsetRelChoices, MaxRelations), y2 \in SynsetRelChoices2}

\* Resources in two lexicons, and resources that repeat an id.
TwoLexicons(e2id, s2id, y2id) ==
    LexicalResource(
        <<Lexicon("oewn",
            <<LexicalEntry("w1", "cat", "N", <<>>, <<Sense("s1", "syn1", <<>>)>>)>>,
            <<PlainSynset("syn1", "w1", <<>>)>>),
          Lexicon("extra",
            <<LexicalEntry(e2id, "dog", "N", <<>>, <<Sense(s2id, y2id, <<>>)>>)>>,
            <<PlainSynset(y2id, e2id, <<>>)>>)>>)

MultiLexiconResources ==
    {TwoLexicons("w2", "s2", "syn2"), TwoLexicons("w1", "s2", "syn2"),
     TwoLexicons("w2", "s1", "syn2"), TwoLexicons("w2", "s2", "syn1"),
     [TwoLexicons("w2", "s2", "syn2") EXCEPT !.lexicons[2].id = "oewn"]}

\* Resources with a dangling reference: a sense of a synset that is never defined,
\* a sense relation or a synset relation to a target that is never defined.
DanglingResource(y3, r1, y1) ==
    LexicalResource(<<Lexicon("oewn",
        <<LexicalEntry("w1", "cat", "N", <<PronGB>>, <<Sense("s1", "syn1", r1)>>),
          LexicalEntry("w2", "dog", "N", <<>>,
                       <<Sense("s2", "syn2", <<>>), Sense("s3", y3, <<>>)>>)>>,
        <<PlainSynset("syn1", "w1", y1), PlainSynset("syn2", "w2", <<>>)>>)>>)

DanglingResources ==
    {DanglingResource("syn9", <<SenseRelation("Antonym", "s2")>>, <<>>),
     DanglingResource("syn2", <<SenseRelation("Antonym", "s2"),
                                SenseRelation("Antonym", "s9")>>, <<>>),
     DanglingResource("syn2", <<>>, <<SynsetRelation("Hypernym", "syn9"),
                                      SynsetRelation("Hypernym", "syn2")>>)}

\* Detail family: an entry with two pronunciations and two senses, one of them
\* with two relations, beside an entry with no child; a synset with two
\* definitions, two examples and two relations beside a synset with none.  A
\* pronunciation, a definition or an example may be given twice.
DetailResources ==
    {LexicalResource(<<Lexicon("oewn",
        <<LexicalEntry("w1", "cat", "N", prons,
                       <<Sense("s1", "syn1", <<SenseRelation("Antonym", "s2"),
                                               SenseRelation("Similar", "s2")>>),
                         Sense("s2", "syn1", <<>>)>>),
          LexicalEntry("w2", "dog", "N", <<>>, <<>>)>>,
        <<Synset("syn1", "i1", "N", "w1", texts, <<Definition("an animal")>>,
                 <<SynsetRelation("Hypernym", "syn2"), SynsetRelation("Hyponym", "syn2")>>,
                 texts),
          Synset("syn2", None, "N", "", <<>>, <<>>, <<>>, <<>>)>>)>>)
     : prons \in {<<PronGB, PronUS>>, <<PronGB, PronGB>>},
       texts \in {<<Definition("a cat"), Definition("a pet")>>,
                  <<Definition("a cat"), Definition("a cat")>>}}

Resources ==
    LemmaResources \cup MembershipResources \cup RelationResources
        \cup MultiLexiconResources \cup DanglingResources \cup DetailResources

\* The records of a resource, flattened.
EntriesOf(res) ==
    UNION {Range(res.lexicons[i].lexical_entries) : i \in 1..Len(res.lexicons)}
SynsetsOf(res) ==
    UNION {Range(res.lexicons[i].synsets) : i \in 1..Len(res.lexicons)}
SensesOf(res) == UNION {Range(e.senses) : e \in EntriesOf(res)}

(***************************************************************************)
(* db.rs: the tables.  A table with a primary key is a set of rows; a      *)
(* table without one (pronunciations, definitions, examples) is the        *)
(* sequence of its rows in insertion order.                                *)
(***************************************************************************)
\* The tables initialize_database leaves in a new file: no row but the schema
\* version in metadata.
SCHEMA_VERSION == 1

\* u32::to_string: the decimal digits of n.
RECURSIVE to_string(_)
to_string(n) ==
    IF n < 10 THEN SubSeq("0123456789", n + 1, n + 1)
    ELSE to_string(n \div 10) \o SubSeq("0123456789", (n % 10) + 1, (n % 10) + 1)

EmptyTables ==
    [lexicons |-> {}, lexical_entries |-> {}, pronunciations |-> <<>>,
     synsets |-> {}, senses |-> {}, definitions |-> <<>>,
     ili_definitions |-> {}, examples |-> <<>>,
     sense_relations |-> {}, synset_relations |-> {},
     metadata |-> {[key |-> "schema_version", value |-> to_string(SCHEMA_VERSION)]}]

NoTx == [open |-> FALSE]

\* The state of the running population: its transaction's tables, the rows it
\* has inserted so far in order, and whether every execute so far returned Ok (the
\* first Err returns from the function).
Running(t) == [ok |-> TRUE, t |-> t, log |-> <<>>]
Failed(st) == [st EXCEPT !.ok = FALSE]

\* One executed INSERT that added a row: the table and the row's key.
Inserted(st, table, key) == Append(st.log, [table |-> table, key |-> key])

\* FOREIGN KEY (...) REFERENCES parent(id): where the SQLite of the build enforces
\* foreign keys, an INSERT naming a parent row that does not exist fails.
MissingParent(st, parent, id) ==
    foreign_keys /\ ~\E r \in st.t[parent] : r.id = id

\* INSERT INTO lexicons: PRIMARY KEY (id).
InsertLexicon(st, lexicon) ==
    IF ~st.ok THEN st
    ELSE IF \E r \in st.t.lexicons : r.id = lexicon.id THEN Failed(st)
    ELSE [st EXCEPT !.t.lexicons = @ \cup {[id |-> lexicon.id]},
                    !.log = Inserted(st, "lexicons", lexicon.id)]

\* INSERT INTO lexical_entries: PRIMARY KEY (id), lexicon_id REFERENCES lexicons.
InsertEntry(st, lexicon, entry) ==
    IF ~st.ok THEN st
    ELSE IF \E r \in st.t.lexical_entries : r.id = entry.id THEN Failed(st)
    ELSE IF MissingParent(st, "lexicons", lexicon.id) THEN Failed(st)
    ELSE [st EXCEPT !.t.lexical_entries = @ \cup
            {[id |-> entry.id,
              lexicon_id |-> lexicon.id,
              lemma_written_form |-> entry.lemma.written_form,
              lemma_written_form_lower |-> ToLowercase(entry.lemma.written_form),
              part_of_speech |-> part_of_speech_to_string(entry.lemma.part_of_speech)]},
                    !.log = Inserted(st, "lexical_entries", entry.id)]

\* INSERT INTO synsets: PRIMARY KEY (id), lexicon_id REFERENCES lexicons.  The
\* members attribute is not stored.
InsertSynset(st, lexicon, synset) ==
    IF ~st.ok THEN st
    ELSE IF \E r \in st.t.synsets : r.id = synset.id THEN Failed(st)
    ELSE IF MissingParent(st, "lexicons", lexicon.id) THEN Failed(st)
    ELSE [st EXCEPT !.t.synsets = @ \cup
            {[id |-> synset.id,
              lexicon_id |-> lexicon.id,
              ili |-> IF synset.ili = None THEN NULL ELSE synset.ili,
              part_of_speech |-> part_of_speech_to_string(synset.part_of_speech)]},
                    !.log = Inserted(st, "synsets", synset.id)]

\* INSERT INTO pronunciations: no key, entry_id REFERENCES lexical_entries; the
\* bool is stored as an integer.
InsertPronunciation(st, entry, pron) ==
    IF ~st.ok THEN st
    ELSE IF MissingParent(st, "lexical_entries", entry.id) THEN Failed(st)
    ELSE [st EXCEPT !.t.pronunciations = Append(@,
            [entry_id |-> entry.id,
             variety |-> pron.variety,
             notation |-> IF pron.notation = None THEN NULL ELSE pron.notation,
             phonemic |-> IF pron.phonemic THEN 1 ELSE 0,
             audio |-> IF pron.audio = None THEN NULL ELSE pron.audio,
             text |-> pron.text]),
                    !.log = Inserted(st, "pronunciations", entry.id)]

\* A faulty insert: INSERT OR REPLACE INTO senses.
InsertSenseReplacing(st, entry, sense) ==
    IF ~st.ok THEN st
    ELSE IF \/ MissingParent(st, "lexical_entries", entry.id)
            \/ MissingParent(st, "synsets", sense.synset) THEN Failed(st)
    ELSE [st EXCEPT !.t.senses = {r \in @ : r.id # sense.id} \cup
            {[id |-> sense.id, entry_id |-> entry.id, synset_id |-> sense.synset]},
                    !.log = Inserted(st, "senses", sense.id)]

\* INSERT INTO senses: PRIMARY KEY (id), entry_id REFERENCES lexical_entries,
\* synset_id REFERENCES synsets.
InsertSense(st, entry, sense) ==
    IF ~st.ok THEN st
    ELSE IF \E r \in st.t.senses : r.id = sense.id THEN Failed(st)
    ELSE IF MissingParent(st, "lexical_entries", entry.id) THEN Failed(st)
    ELSE IF MissingParent(st, "synsets", sense.synset) THEN Failed(st)
    ELSE [st EXCEPT !.t.senses = @ \cup
            {[id |-> sense.id, entry_id |-> entry.id, synset_id |-> sense.synset]},
                    !.log = Inserted(st, "senses", sense.id)]

\* INSERT INTO definitions / examples: no key, synset_id REFERENCES synsets.
DetailRow(synset, d) ==
    [synset_id |-> synset.id, text |-> d.text,
     dc_source |-> IF d.dc_source = None THEN NULL ELSE d.dc_source]

InsertDefinition(st, synset, d) ==
    IF ~st.ok THEN st
    ELSE IF MissingParent(st, "synsets", synset.id) THEN Failed(st)
    ELSE [st EXCEPT !.t.definitions = Append(@, DetailRow(synset, d)),
                    !.log = Inserted(st, "definitions", synset.id)]

InsertExample(st, synset, e) ==
    IF ~st.ok THEN st
    ELSE IF MissingParent(st, "synsets", synset.id) THEN Failed(st)
    ELSE [st EXCEPT !.t.examples = Append(@, DetailRow(synset, e)),
                    !.log = Inserted(st, "examples", synset.id)]

\* INSERT INTO ili_definitions: PRIMARY KEY (synset_id), REFERENCES synsets.
InsertIliDefinition(st, synset, d) ==
    IF ~st.ok THEN st
    ELSE IF \E r \in st.t.ili_definitions : r.synset_id = synset.id THEN Failed(st)
    ELSE IF MissingParent(st, "synsets", synset.id) THEN Failed(st)
    ELSE [st EXCEPT !.t.ili_definitions = @ \cup {DetailRow(synset, d)},
                    !.log = Inserted(st, "ili_definitions", synset.id)]

\* The row of one sense relation.
SenseRelationRow(sense, relation) ==
    [source_sense_id |-> sense.id,
     target_sense_id |-> relation.target,
     rel_type |-> sense_rel_type_to_string(relation.rel_type)]

\* A faulty insert: a relation of the catch-all kind is skipped.
InsertSenseRelationKnownOnly(st, sense, relation) ==
    IF ~st.ok \/ relation.rel_type = "Other" THEN st
    ELSE [st EXCEPT !.t.sense_relations = @ \cup {SenseRelationRow(sense, relation)},
                    !.log = Inserted(st, "sense_relations", sense.id)]

\* INSERT OR IGNORE INTO sense_relations:
\* PRIMARY KEY (source_sense_id, target_sense_id, rel_type), both ids REFERENCES
\* senses.  A repeated key is skipped; OR IGNORE does not cover a foreign key.
InsertSenseRelation(st, sense, relation) ==
    IF ~st.ok THEN st
    ELSE IF SenseRelationRow(sense, relation) \in st.t.sense_relations THEN st
    ELSE IF \/ MissingParent(st, "senses", sense.id)
            \/ MissingParent(st, "senses", relation.target) THEN Failed(st)
    ELSE [st EXCEPT !.t.sense_relations = @ \cup {SenseRelationRow(sense, relation)},
                    !.log = Inserted(st, "sense_relations", sense.id)]

\* The row of one synset relation.
SynsetRelationRow(synset, relation) ==
    [source_synset_id |-> synset.id,
     target_synset_id |-> relation.target,
     rel_type |-> synset_rel_type_to_string(relation.rel_type)]

\* A faulty insert: source and target are swapped.
InsertSynsetRelationSwapped(st, synset, relation) ==
    IF ~st.ok THEN st
    ELSE [st EXCEPT !.t.synset_relations = @ \cup
            {[source_synset_id |-> relation.target,
              target_synset_id |-> synset.id,
              rel_type |-> synset_rel_type_to_string(relation.rel_type)]},
                    !.log = Inserted(st, "synset_relations", synset.id)]

\* INSERT OR IGNORE INTO synset_relations:
\* PRIMARY KEY (source_synset_id, target_synset_id, rel_type), both ids REFERENCES
\* synsets.
InsertSynsetRelation(st, synset, relation) ==
    IF ~st.ok THEN st
    ELSE IF SynsetRelationRow(synset, relation) \in st.t.synset_relations THEN st
    ELSE IF \/ MissingParent(st, "synsets", synset.id)
            \/ MissingParent(st, "synsets", relation.target) THEN Failed(st)
    ELSE [st EXCEPT !.t.synset_relations = @ \cup {SynsetRelationRow(synset, relation)},
                    !.log = Inserted(st, "synset_relations", synset.id)]

(***************************************************************************)
(* db.rs: populate_database, pass by pass.                                 *)
(***************************************************************************)
\* Pass 1, one lexicon: its row, then its entries, then its synsets.
Pass1Lexicon(st, lexicon) ==
    LET a == InsertLexicon(st, lexicon)
        b == FoldSeq(LAMBDA s, e : InsertEntry(s, lexicon, e), a, lexicon.lexical_entries)
    IN FoldSeq(LAMBDA s, y : InsertSynset(s, lexicon, y), b, lexicon.synsets)

\* Pass 2, one lexicon: for each entry its pronunciations, then its senses; then
\* for each synset its definitions, its ILI definition if any, its examples.
Pass2Lexicon(st, lexicon) ==
    LET Pass2Entry(s0, entry) ==
            LET a == FoldSeq(LAMBDA s, p : InsertPronunciation(s, entry, p),
                             s0, entry.pronunciations)
            IN FoldSeq(LAMBDA s, x : InsertSense(s, entry, x), a, entry.senses)
        Pass2Synset(s0, synset) ==
            LET a == FoldSeq(LAMBDA s, d : InsertDefinition(s, synset, d),
                             s0, synset.definitions)
                b == FoldSeq(LAMBDA s, d : InsertIliDefinition(s, synset, d),
                             a, synset.ili_definition)
            IN FoldSeq(LAMBDA s, e : InsertExample(s, synset, e), b, synset.examples)
    IN FoldSeq(Pass2Synset, FoldSeq(Pass2Entry, st, lexicon.lexical_entries),
               lexicon.synsets)

\* A faulty pass 1: the details of each lexicon follow its core rows at once.
RunPass1WithDetails(st, res) ==
    FoldSeq(LAMBDA s, l : Pass2Lexicon(Pass1Lexicon(s, l), l), st, res.lexicons)

RunPass1(st, res) == FoldSeq(Pass1Lexicon, st, res.lexicons)

RunPass2(st, res) == FoldSeq(Pass2Lexicon, st, res.lexicons)

\* Pass 3, one lexicon: the relations of every sense of every entry, then of every
\* synset.
Pass3Lexicon(st, lexicon) ==
    LET Pass3Sense(s0, sense) ==
            FoldSeq(LAMBDA s, r : InsertSenseRelation(s, sense, r),
                    s0, sense.sense_relations)
        Pass3Entry(s0, entry) == FoldSeq(Pass3Sense, s0, entry.senses)
        Pass3Synset(s0, synset) ==
            FoldSeq(LAMBDA s, r : InsertSynsetRelation(s, synset, r),
                    s0, synset.synset_relations)
    IN FoldSeq(Pass3Synset, FoldSeq(Pass3Entry, st, lexicon.lexical_entries),
               lexicon.synsets)

RunPass3(st, res) == FoldSeq(Pass3Lexicon, st, res.lexicons)

(***************************************************************************)
(* lib.rs: the joins.  A join row keeps, for each joined table, the row it *)
(* took from it as an Option: <<row>>, or <<>> where a LEFT JOIN found no  *)
(* child and every column of that table is NULL.  A query's rows are a     *)
(* set: identical rows are told apart by nothing the aggregation reads.    *)
(***************************************************************************)
\* LEFT JOIN: every child, or the one all-NULL row.
Opt(children) == IF children = {} THEN {<<>>} ELSE {<<c>> : c \in children}

\* senses s LEFT JOIN sense_relations sr ON s.id = sr.source_sense_id
SenseRelJoin(d, senses) ==
    UNION {{[s |-> <<s>>, sr |-> r]
              : r \in Opt({x \in d.sense_relations : x.source_sense_id = s.id})}
           : s \in senses}

\* lexical_entries le LEFT JOIN pronunciations p LEFT JOIN senses s
\*   LEFT JOIN sense_relations sr ON s.id = sr.source_sense_id
EntryJoinRows(d, les) ==
    UNION {{[le |-> le, p |-> p, s |-> x.s, sr |-> x.sr]
              : p \in Opt({q \in Range(d.pronunciations) : q.entry_id = le.id}),
                x \in (LET own == {y \in d.senses : y.entry_id = le.id}
                       IN IF own = {} THEN {[s |-> <<>>, sr |-> <<>>]}
                          ELSE SenseRelJoin(d, own))}
           : le \in les}

\* synsets s LEFT JOIN definitions d LEFT JOIN ili_definitions id
\*   LEFT JOIN examples e LEFT JOIN synset_relations sr
SynsetJoinRows(d, synsets) ==
    UNION {{[y |-> y, df |-> df, ili |-> il, ex |-> ex, sr |-> sr]
              : df \in Opt({x \in Range(d.definitions) : x.synset_id = y.id}),
                il \in Opt({x \in d.ili_definitions : x.synset_id = y.id}),
                ex \in Opt({x \in Range(d.examples) : x.synset_id = y.id}),
                sr \in Opt({x \in d.synset_relations : x.source_synset_id = y.id})}
           : y \in synsets}

(***************************************************************************)
(* lib.rs: rows back into records.                                         *)
(***************************************************************************)
FromSql(v) == IF v = NULL THEN None ELSE v

DecodePronunciation(p) ==
    Pronunciation(p.variety, FromSql(p.notation), p.phonemic # 0, FromSql(p.audio), p.text)

DecodeSenseRelation(r) ==
    SenseRelation(string_to_sense_rel_type(r.rel_type).val, r.target_sense_id)

DecodeSynsetRelation(r) ==
    SynsetRelation(string_to_synset_rel_type(r.rel_type).val, r.target_synset_id)

DecodeDetail(r) == [dc_source |-> FromSql(r.dc_source), text |-> r.text]

\* The senses of a set of (s, sr) rows, grouped in a map keyed by sense id.  With
\* dedupe a relation is pushed only if the Vec does not contain it yet; without,
\* one relation is pushed per row.
SensesFromRows(rows, dedupe) ==
    {LET mine == {r \in rows : r.s[1].id = id /\ r.sr # <<>>}
         first == CHOOSE r \in rows : r.s[1].id = id
         each == SetToSeq(mine)
     IN Sense(id, first.s[1].synset_id,
              IF dedupe
              THEN SetToSeq({DecodeSenseRelation(r.sr[1]) : r \in mine})
              ELSE [i \in 1..Len(each) |-> DecodeSenseRelation(each[i].sr[1])])
     : id \in {r.s[1].id : r \in rows}}

\* A faulty aggregation: one LexicalEntry per join row.
AggregateEntriesPerRow(rows) ==
    LET each == SetToSeq(rows)
    IN Ok([i \in 1..Len(each) |->
            LexicalEntry(each[i].le.id, each[i].le.lemma_written_form,
                         string_to_part_of_speech(each[i].le.part_of_speech).val,
                         <<>>, <<>>)])

\* The aggregation of lookup_entries and all_entries: entries_map keyed by entry
\* id, pronunciations in a HashSet per entry, senses in a map per entry, sorted.
AggregateEntries(rows) ==
    IF \E r \in rows : ~string_to_part_of_speech(r.le.part_of_speech).ok
    THEN Err("DbError", "part_of_speech")
    ELSE Ok(SetToSeq(
        {LET mine == {r \in rows : r.le.id = id}
             first == CHOOSE r \in mine : TRUE
         IN LexicalEntry(id, first.le.lemma_written_form,
                string_to_part_of_speech(first.le.part_of_speech).val,
                SetToSeq({DecodePronunciation(r.p[1]) : r \in {q \in mine : q.p # <<>>}}),
                SortById(SensesFromRows(
                    {[s |-> r.s, sr |-> r.sr] : r \in {q \in mine : q.s # <<>>}}, TRUE)))
         : id \in {r.le.id : r \in rows}}))

\* One Synset from the join rows of one synset id.
SynsetFromRows(rows) ==
    LET first == CHOOSE r \in rows : TRUE
    IN [id |-> first.y.id,
        ili |-> FromSql(first.y.ili),
        part_of_speech |-> string_to_part_of_speech(first.y.part_of_speech).val,
        members |-> "",
        definitions |-> SetToSeq({DecodeDetail(r.df[1]) : r \in {q \in rows : q.df # <<>>}}),
        ili_definition |->
            IF \E r \in rows : r.ili # <<>>
            THEN <<DecodeDetail((CHOOSE r \in rows : r.ili # <<>>).ili[1])>>
            ELSE <<>>,
        synset_relations |->
            SetToSeq({DecodeSynsetRelation(r.sr[1]) : r \in {q \in rows : q.sr # <<>>}}),
        examples |-> SetToSeq({DecodeDetail(r.ex[1]) : r \in {q \in rows : q.ex # <<>>}})]

(***************************************************************************)
(* lib.rs: the queries of a WordNet handle, as functions of the tables.    *)
(* An Option result is <<>> or <<v>>; an Option<String> is None or the     *)
(* string.                                                                 *)
(***************************************************************************)
\* A faulty lookup: the query string is compared as typed.
lookup_entries_exact_case(d, lemma, pos_filter) ==
    LET pos_str_filter ==
            IF pos_filter = None THEN NULL ELSE part_of_speech_to_string(pos_filter)
    IN AggregateEntries(EntryJoinRows(d,
        {le \in d.lexical_entries :
            /\ le.lemma_written_form_lower = lemma
            /\ (pos_str_filter = NULL \/ le.part_of_speech = pos_str_filter)}))

lookup_entries(d, lemma, pos_filter) ==
    LET pos_str_filter ==
            IF pos_filter = None THEN NULL ELSE part_of_speech_to_string(pos_filter)
    IN AggregateEntries(EntryJoinRows(d,
        {le \in d.lexical_entries :
            /\ le.lemma_written_form_lower = ToLowercase(lemma)
            /\ (pos_str_filter = NULL \/ le.part_of_speech = pos_str_filter)}))

\* A faulty scan: senses joined with an inner join.
all_entries_inner_join(d) ==
    AggregateEntries({r \in EntryJoinRows(d, d.lexical_entries) : r.s # <<>>})

all_entries(d) == AggregateEntries(EntryJoinRows(d, d.lexical_entries))

\* A faulty selection: the senses of every synset.
get_senses_for_synset_unfiltered(d, synset_id) ==
    Ok(SetToSeq(SensesFromRows(SenseRelJoin(d, d.senses), TRUE)))

get_senses_for_synset(d, synset_id) ==
    Ok(SetToSeq(SensesFromRows(
        SenseRelJoin(d, {s \in d.senses : s.synset_id = synset_id}), TRUE)))

\* A faulty helper: the senses are read without their relations.
fetch_senses_for_entry_internal_no_join(d, entry_id) ==
    Ok(SetToSeq({Sense(s.id, s.synset_id, <<>>) : s \in {x \in d.senses : x.entry_id = entry_id}}))

fetch_senses_for_entry_internal(d, entry_id) ==
    Ok(SetToSeq(SensesFromRows(
        SenseRelJoin(d, {s \in d.senses : s.entry_id = entry_id}), FALSE)))

get_senses_for_entry(d, entry_id) == fetch_senses_for_entry_internal(d, entry_id)

fetch_full_sense_by_id(d, sense_id) ==
    LET rows == SenseRelJoin(d, {s \in d.senses : s.id = sense_id})
    IN IF rows = {} THEN Ok(<<>>)
       ELSE Ok(<<CHOOSE x \in SensesFromRows(rows, FALSE) : TRUE>>)

get_sense(d, id) ==
    LET r == fetch_full_sense_by_id(d, id)
    IN IF r.val = <<>> THEN Err("Internal", "Sense ID not found: " \o id)
       ELSE Ok(r.val[1])

\* A faulty owner lookup: the sense's synset is returned for its entry.
get_entry_id_for_sense_synset(d, sense_id) ==
    IF \E s \in d.senses : s.id = sense_id
    THEN Ok((CHOOSE s \in d.senses : s.id = sense_id).synset_id)
    ELSE Ok(None)

get_entry_id_for_sense(d, sense_id) ==
    IF \E s \in d.senses : s.id = sense_id
    THEN Ok((CHOOSE s \in d.senses : s.id = sense_id).entry_id)
    ELSE Ok(None)

fetch_full_entry_by_id(d, entry_id) ==
    LET rows == {[le |-> le, p |-> p]
                   : le \in {x \in d.lexical_entries : x.id = entry_id},
                     p \in Opt({q \in Range(d.pronunciations) : q.entry_id = entry_id})}
    IN IF rows = {} THEN Ok(<<>>)
       ELSE IF \E r \in rows : ~string_to_part_of_speech(r.le.part_of_speech).ok
       THEN Err("DbError", "part_of_speech")
       ELSE LET first == CHOOSE r \in rows : TRUE
            IN Ok(<<LexicalEntry(first.le.id, first.le.lemma_written_form,
                        string_to_part_of_speech(first.le.part_of_speech).val,
                        SetToSeq({DecodePronunciation(r.p[1]) : r \in {q \in rows : q.p # <<>>}}),
                        fetch_senses_for_entry_internal(d, entry_id).val)>>)

get_entry_by_id(d, entry_id) == fetch_full_entry_by_id(d, entry_id)

get_related_senses(d, sense_id, rel_type) ==
    LET rel_type_str == sense_rel_type_to_string(rel_type)
        targets == {sr1.target_sense_id
                      : sr1 \in {x \in d.sense_relations :
                                    /\ x.source_sense_id = sense_id
                                    /\ x.rel_type = rel_type_str}}
    IN Ok(SetToSeq(SensesFromRows(
            SenseRelJoin(d, {s \in d.senses : s.id \in targets}), TRUE)))

get_related_synsets(d, synset_id, rel_type) ==
    LET rel_type_str == synset_rel_type_to_string(rel_type)
        targets == {sr1.target_synset_id
                      : sr1 \in {x \in d.synset_relations :
                                    /\ x.source_synset_id = synset_id
                                    /\ x.rel_type = rel_type_str}}
        rows == SynsetJoinRows(d, {y \in d.synsets : y.id \in targets})
    IN IF \E r \in rows : ~string_to_part_of_speech(r.y.part_of_speech).ok
       THEN Err("DbError", "part_of_speech")
       ELSE Ok(SetToSeq({SynsetFromRows({r \in rows : r.y.id = id})
                           : id \in {r.y.id : r \in rows}}))

fetch_full_synset_by_id(d, synset_id) ==
    LET rows == SynsetJoinRows(d, {y \in d.synsets : y.id = synset_id})
    IN IF rows = {} THEN Ok(<<>>)
       ELSE IF \E r \in rows : ~string_to_part_of_speech(r.y.part_of_speech).ok
       THEN Err("DbError", "part_of_speech")
       ELSE Ok(<<SynsetFromRows(rows)>>)

\* A faulty wrapper: a missing synset becomes an empty record.
get_synset_or_default(d, id) ==
    LET r == fetch_full_synset_by_id(d, id)
    IN IF ~r.ok THEN r
       ELSE IF r.val = <<>>
       THEN Ok([id |-> id, ili |-> None, part_of_speech |-> "U", members |-> "",
                definitions |-> <<>>, ili_definition |-> <<>>,
                synset_relations |-> <<>>, examples |-> <<>>])
       ELSE Ok(r.val[1])

get_synset(d, id) ==
    LET r == fetch_full_synset_by_id(d, id)
    IN IF ~r.ok THEN r
       ELSE IF r.val = <<>> THEN Err("SynsetNotFound", id)
       ELSE Ok(r.val[1])

(***************************************************************************)
(* main.rs: the lists print_sense_details and print_relation print.        *)
(***************************************************************************)
\* The loop body shared by the three loops: the written form of the entry owning
\* each sense is pushed unless it is skipped or already in the list.
RECURSIVE push_lemmas(_, _, _, _)
push_lemmas(d, senses, acc, skipped) ==
    IF senses = <<>> THEN Ok(acc)
    ELSE LET entry_id == get_entry_id_for_sense(d, Head(senses).id)
         IN IF ~entry_id.ok THEN entry_id
            ELSE IF entry_id.val = None THEN push_lemmas(d, Tail(senses), acc, skipped)
            ELSE LET entry == get_entry_by_id(d, entry_id.val)
                 IN IF ~entry.ok THEN entry
                    ELSE IF entry.val = <<>>
                    THEN push_lemmas(d, Tail(senses), acc, skipped)
                    ELSE LET w == entry.val[1].lemma.written_form
                         IN push_lemmas(d, Tail(senses),
                                IF w \in skipped \/ w \in Range(acc)
                                THEN acc ELSE Append(acc, w),
                                skipped)

\* A faulty sort: descending.
RECURSIVE SortDescending(_)
SortDescending(seq) ==
    IF seq = <<>> THEN <<>>
    ELSE LET rest == SortDescending(Tail(seq))
             k == Cardinality({i \in 1..Len(rest) : StrLess(Head(seq), rest[i])})
         IN SubSeq(rest, 1, k) \o <<Head(seq)>> \o SubSeq(rest, k + 1, Len(rest))

\* Vec<String>::sort(): ascending in the byte order of str, repeats kept.
RECURSIVE Sort(_)
Sort(seq) ==
    IF seq = <<>> THEN <<>>
    ELSE LET rest == Sort(Tail(seq))
             k == Cardinality({i \in 1..Len(rest) : StrLess(rest[i], Head(seq))})
         IN SubSeq(rest, 1, k) \o <<Head(seq)>> \o SubSeq(rest, k + 1, Len(rest))

\* Vec::dedup(): of each run of equal neighbours the first is kept.
RECURSIVE Dedup(_)
Dedup(seq) ==
    IF Len(seq) < 2 THEN seq
    ELSE IF seq[1] = seq[2] THEN Dedup(Tail(seq))
    ELSE <<seq[1]>> \o Dedup(Tail(seq))

\* The synonyms of print_sense_details; the list is sorted when it is not empty.
synonyms(d, current_lemma, synset_id) ==
    LET member_senses == get_senses_for_synset(d, synset_id)
    IN IF ~member_senses.ok THEN member_senses
       ELSE LET pushed == push_lemmas(d, member_senses.val, <<>>, {current_lemma})
            IN IF ~pushed.ok THEN pushed ELSE Ok(Sort(pushed.val))

\* print_relation with a sense relation kind (variant = "Sense") or a synset
\* relation kind (variant = "Synset").
print_relation(d, synset_id, variant, rel_type) ==
    LET pushed ==
          IF variant = "Sense"
          THEN LET member_senses == get_senses_for_synset(d, synset_id)
               IN IF ~member_senses.ok THEN member_senses
                  ELSE push_lemmas(d,
                         FoldSeq(LAMBDA acc, m :
                                   acc \o SelectSeq(get_related_senses(d, m.id, rel_type).val,
                                                    LAMBDA t : t.synset # synset_id),
                                 <<>>, member_senses.val),
                         <<>>, {})
          ELSE LET related_synsets == get_related_synsets(d, synset_id, rel_type)
               IN IF ~related_synsets.ok THEN related_synsets
                  ELSE push_lemmas(d,
                         FoldSeq(LAMBDA acc, y : acc \o get_senses_for_synset(d, y.id).val,
                                 <<>>, related_synsets.val),
                         <<>>, {})
    IN IF ~pushed.ok THEN pushed ELSE Ok(Dedup(Sort(pushed.val)))

\* The four lists one call of print_sense_details prints.
print_sense_details(d, current_lemma, synset_id) ==
    LET syn == synonyms(d, current_lemma, synset_id)
        ant == print_relation(d, synset_id, "Sense", "Antonym")
        hyper == print_relation(d, synset_id, "Synset", "Hypernym")
        hypo == print_relation(d, synset_id, "Synset", "Hyponym")
    IN IF ~syn.ok THEN syn
       ELSE IF ~ant.ok THEN ant
       ELSE IF ~hyper.ok THEN hyper
       ELSE IF ~hypo.ok THEN hypo
       ELSE Ok([synonyms |-> syn.val, antonyms |-> ant.val,
                hypernyms |-> hyper.val, hyponyms |-> hypo.val])

(***************************************************************************)
(* The state machine: one load of one resource into an empty database      *)
(* (populate_database), then queries on the handle the load returned.      *)
(***************************************************************************)
NoResult == [op |-> "none"]

\* The builds a resource is loaded under.  The code sets no foreign_keys pragma, so
\* enforcement is what the linked SQLite defaults to: on in one build, off in
\* another.  Every insert of a resource without a dangling reference finds its
\* parent rows, so for such a resource one build stands for both.
Builds(res) == IF res \in DanglingResources THEN BOOLEAN ELSE {TRUE}

Init ==
    /\ resource \in Resources
    /\ db = EmptyTables
    /\ tx = NoTx
    /\ pc = "start"
    /\ result = NoResult
    /\ codec = [stage |-> "idle"]
    /\ foreign_keys \in Builds(resource)
    /\ load = [stage |-> "populate"]
    /\ mutex = [locked |-> FALSE]
    /\ threads = <<>>

\* conn.transaction()
BeginTransaction ==
    /\ pc = "start"
    /\ tx' = [open |-> TRUE, st |-> Running(db)]
    /\ pc' = "pass1"
    /\ UNCHANGED <<resource, db, result, codec, foreign_keys, load, mutex, threads>>

\* A pass: on the first failed execute the function returns the error, the
\* Transaction is dropped and rolls back.
Pass1 ==
    /\ pc = "pass1"
    /\ LET st == RunPass1(tx.st, resource)
       IN IF st.ok
          THEN tx' = [tx EXCEPT !.st = st] /\ pc' = "pass2"
          ELSE tx' = NoTx /\ pc' = "failed"
    /\ UNCHANGED <<resource, db, result, codec, foreign_keys, load, mutex, threads>>

\* A faulty pass 2: the rows inserted before a failure stay in the tables.
Pass2NoRollback ==
    /\ pc = "pass2"
    /\ LET st == RunPass2(tx.st, resource)
       IN IF st.ok
          THEN tx' = [tx EXCEPT !.st = st] /\ pc' = "pass3" /\ db' = db
          ELSE tx' = NoTx /\ pc' = "failed" /\ db' = st.t
    /\ UNCHANGED <<resource, result, codec, foreign_keys, load, mutex, threads>>

Pass2 ==
    /\ pc = "pass2"
    /\ LET st == RunPass2(tx.st, resource)
       IN IF st.ok
          THEN tx' = [tx EXCEPT !.st = st] /\ pc' = "pass3"
          ELSE tx' = NoTx /\ pc' = "failed"
    /\ UNCHANGED <<resource, db, result, codec, foreign_keys, load, mutex, threads>>

Pass3 ==
    /\ pc = "pass3"
    /\ LET st == RunPass3(tx.st, resource)
       IN IF st.ok
          THEN tx' = [tx EXCEPT !.st = st] /\ pc' = "commit"
          ELSE tx' = NoTx /\ pc' = "failed"
    /\ UNCHANGED <<resource, db, result, codec, foreign_keys, load, mutex, threads>>

\* tx.commit()
Commit ==
    /\ pc = "commit"
    /\ db' = tx.st.t
    /\ tx' = NoTx
    /\ pc' = "loaded"
    /\ UNCHANGED <<resource, result, codec, foreign_keys, load, mutex, threads>>

\* Arguments the queries are called with.
Args ==
    [lemma |-> {"CAT", "dog", "emu"},
     pos_filter |-> {None, "N", "V"},
     entry_id |-> {"w1", "w2", "w9"},
     sense_id |-> {"s1", "s2", "s9"},
     synset_id |-> {"syn1", "syn2", "syn9"},
     sense_rel_type |-> {"Antonym", "DomainTopic", "Other"},
     synset_rel_type |-> {"Hypernym", "InstanceHypernym", "Unknown"},
     related_sense_id |-> {"s1", "s9"},
     related_synset_id |-> {"syn1", "syn9"},
     current_lemma |-> {"cat", "dog"}]

Query(op, args, ret) ==
    /\ pc = "loaded"
    /\ result' = [op |-> op, args |-> args, ret |-> ret]
    /\ UNCHANGED <<resource, db, tx, pc, codec, foreign_keys, load, mutex, threads>>

LookupEntries ==
    \E lemma \in Args.lemma, pos_filter \in Args.pos_filter :
        Query("lookup_entries", <<lemma, pos_filter>>, lookup_entries(db, lemma, pos_filter))

GetSynset ==
    \E id \in Args.synset_id : Query("get_synset", <<id>>, get_synset(db, id))

GetSense ==
    \E id \in Args.sense_id : Query("get_sense", <<id>>, get_sense(db, id))

GetSensesForEntry ==
    \E id \in Args.entry_id :
        Query("get_senses_for_entry", <<id>>, get_senses_for_entry(db, id))

GetSensesForSynset ==
    \E id \in Args.synset_id :
        Query("get_senses_for_synset", <<id>>, get_senses_for_synset(db, id))

\* SELECT id FROM lexical_entries ORDER BY RANDOM() LIMIT 1, then the full entry.
\* A faulty get_random_entry: always the entry of the least id.
get_random_entry_first(d) ==
    IF d.lexical_entries = {}
    THEN {Err("Internal", "No entries found in database.")}
    ELSE {Ok(fetch_full_entry_by_id(d, SortById(d.lexical_entries)[1].id).val[1])}

\* get_random_entry: the outcomes ORDER BY RANDOM() LIMIT 1 allows, one per stored
\* entry, or the error when no entry is stored.
get_random_entry(d) ==
    IF d.lexical_entries = {}
    THEN {Err("Internal", "No entries found in database.")}
    ELSE {LET r == fetch_full_entry_by_id(d, le.id)
          IN IF ~r.ok THEN r
             ELSE IF r.val = <<>>
             THEN Err("Internal", "Random entry ID " \o le.id \o " not found.")
             ELSE Ok(r.val[1]) : le \in d.lexical_entries}

GetRandomEntry ==
    \E ret \in get_random_entry(db) : Query("get_random_entry", <<>>, ret)

PrintSenseDetails ==
    \E current_lemma \in Args.current_lemma, synset \in db.synsets :
        Query("print_sense_details", <<current_lemma, synset.id>>,
              print_sense_details(db, current_lemma, synset.id))

AllEntries == Query("all_entries", <<>>, all_entries(db))

GetEntryIdForSense ==
    \E id \in Args.sense_id :
        Query("get_entry_id_for_sense", <<id>>, get_entry_id_for_sense(db, id))

GetEntryById ==
    \E id \in Args.entry_id : Query("get_entry_by_id", <<id>>, get_entry_by_id(db, id))

GetRelatedSenses ==
    \E id \in Args.related_sense_id, rel_type \in Args.sense_rel_type :
        Query("get_related_senses", <<id, rel_type>>, get_related_senses(db, id, rel_type))

GetRelatedSynsets ==
    \E id \in Args.related_synset_id, rel_type \in Args.synset_rel_type :
        Query("get_related_synsets", <<id, rel_type>>, get_related_synsets(db, id, rel_type))

Next ==
    \/ BeginTransaction
    \/ Pass1
    \/ Pass2
    \/ Pass3
    \/ Commit
    \/ LookupEntries
    \/ GetSynset
    \/ GetSense
    \/ GetSensesForEntry
    \/ GetSensesForSynset
    \/ GetRandomEntry
    \/ AllEntries
    \/ PrintSenseDetails
    \/ GetEntryIdForSense
    \/ GetEntryById
    \/ GetRelatedSenses
    \/ GetRelatedSynsets

Spec == Init /\ [][Next]_vars

(***************************************************************************)
(* The storage conversions on their own: a relation kind is written to its *)
(* TEXT column and read back.                                              *)
(***************************************************************************)
InitKinds ==
    /\ resource = LexicalResource(<<>>)
    /\ db = EmptyTables
    /\ tx = NoTx
    /\ pc = "start"
    /\ result = NoResult
    /\ codec \in {[stage |-> "parsed", family |-> "sense", kind |-> k] : k \in SenseRelType}
            \cup {[stage |-> "parsed", family |-> "synset", kind |-> k] : k \in SynsetRelType}
    /\ foreign_keys = FALSE
    /\ load = [stage |-> "populate"]
    /\ mutex = [locked |-> FALSE]
    /\ threads = <<>>

\* populate_database, pass 3: the kind goes into rel_type, through
\* sense_rel_type_to_string or synset_rel_type_to_string.
StoreRelType ==
    /\ codec.stage = "parsed"
    /\ codec' = [stage |-> "stored", family |-> codec.family, kind |-> codec.kind,
                 text |-> IF codec.family = "sense"
                          THEN sense_rel_type_to_string(codec.kind)
                          ELSE synset_rel_type_to_string(codec.kind)]
    /\ UNCHANGED <<resource, db, tx, pc, result, foreign_keys, load, mutex, threads>>

\* A query's row closure: rel_type comes back out, through
\* string_to_sense_rel_type or string_to_synset_rel_type.
ReadRelType ==
    /\ codec.stage = "stored"
    /\ codec' = [stage |-> "read", family |-> codec.family, kind |-> codec.kind,
                 text |-> codec.text,
                 back |-> IF codec.family = "sense"
                          THEN string_to_sense_rel_type(codec.text)
                          ELSE string_to_synset_rel_type(codec.text)]
    /\ UNCHANGED <<resource, db, tx, pc, result, foreign_keys, load, mutex, threads>>

NextKinds ==
    \/ StoreRelType
    \/ ReadRelType

SpecKinds == InitKinds /\ [][NextKinds]_vars

(***************************************************************************)
(* load_with_options: the file found at the database path, the schema      *)
(* initialisation, the clearing a forced reload does, the acquisition and  *)
(* the parsing of the XML, then populate_database as above.  db is the     *)
(* committed content of the file, which is what a reader on another        *)
(* connection sees.                                                        *)
(***************************************************************************)
\* str::parse::<u32>: the value of a non-empty string of decimal digits, an
\* error for any other string.
ParseU32(str) ==
    LET Digit(i) == CHOOSE k \in 0..9 : SubSeq("0123456789", k + 1, k + 1) = SubSeq(str, i, i)
        IsDigit(i) == \E k \in 0..9 : SubSeq("0123456789", k + 1, k + 1) = SubSeq(str, i, i)
        RECURSIVE Value(_)
        Value(i) == IF i = 0 THEN 0 ELSE 10 * Value(i - 1) + Digit(i)
    IN IF Len(str) > 0 /\ \A i \in 1..Len(str) : IsDigit(i)
       THEN Ok(Value(Len(str)))
       ELSE Err("ParseError", str)

\* A faulty initialisation: the stored version is overwritten whenever it differs.
initialize_database_overwriting(d) ==
    LET existing == {m \in d.metadata : m.key = "schema_version"}
        current == [key |-> "schema_version", value |-> to_string(SCHEMA_VERSION)]
    IN IF existing = {} THEN Ok([d EXCEPT !.metadata = @ \cup {current}])
       ELSE LET v_str == (CHOOSE m \in existing : TRUE).value
                existing_version == ParseU32(v_str)
            IN IF ~existing_version.ok THEN existing_version
               ELSE IF existing_version.val # SCHEMA_VERSION
               THEN Ok([d EXCEPT !.metadata = (@ \ existing) \cup {current}])
               ELSE Ok(d)

\* initialize_database: the tables are created if they do not exist; the schema
\* version is inserted when absent, updated when older, left alone when equal or
\* newer, and a version that does not parse is an error which rolls back.
initialize_database(d) ==
    LET existing == {m \in d.metadata : m.key = "schema_version"}
        current == [key |-> "schema_version", value |-> to_string(SCHEMA_VERSION)]
    IN IF existing = {} THEN Ok([d EXCEPT !.metadata = @ \cup {current}])
       ELSE LET v_str == (CHOOSE m \in existing : TRUE).value
                existing_version == ParseU32(v_str)
            IN IF ~existing_version.ok THEN existing_version
               ELSE IF existing_version.val < SCHEMA_VERSION
               THEN Ok([d EXCEPT !.metadata = (@ \ existing) \cup {current}])
               ELSE Ok(d)

\* A faulty clearing: DELETE FROM lexicons is missing.
clear_database_data_keeping_lexicons(d) ==
    [EmptyTables EXCEPT !.metadata = d.metadata, !.lexicons = d.lexicons]

\* clear_database_data: every data table is emptied, metadata is not.
clear_database_data(d) == [EmptyTables EXCEPT !.metadata = d.metadata]

\* The tables a successful population of res into a new file leaves.
Populated(res) == RunPass3(RunPass2(RunPass1(Running(EmptyTables), res), res), res).t

\* What load_with_options finds at the database path: no file, a file with no
\* data whose schema version is older, newer or not a number, or a file a former
\* load populated.
PriorDatabases ==
    {[db_exists |-> FALSE, db |-> [EmptyTables EXCEPT !.metadata = {}]]}
    \cup {[db_exists |-> TRUE,
           db |-> [EmptyTables EXCEPT !.metadata = {[key |-> "schema_version", value |-> v]}]]
            : v \in {"0", "2", "v1"}}
    \cup {[db_exists |-> TRUE, db |-> Populated(res)]
            : res \in {RelationResource(<<SenseRelation("Antonym", "s2")>>,
                                        <<SenseRelation("Antonym", "s1")>>, <<>>, <<>>),
                       TwoLexicons("w2", "s2", "syn2")}}

\* The XML file parses to a resource in two lexicons or to one with a dangling
\* reference.
InitLoad ==
    /\ resource \in MultiLexiconResources \cup DanglingResources
    /\ foreign_keys \in Builds(resource)
    /\ \E prior \in PriorDatabases, force_reload \in BOOLEAN :
          /\ db = prior.db
          /\ load = [stage |-> "load", force_reload |-> force_reload,
                     db_exists |-> prior.db_exists, prior |-> prior.db,
                     needs_population |-> ~prior.db_exists \/ force_reload,
                     initialized |-> FALSE, acquired |-> FALSE, parsed |-> FALSE]
    /\ tx = NoTx
    /\ pc = "open"
    /\ result = NoResult
    /\ codec = [stage |-> "idle"]
    /\ mutex = [locked |-> FALSE]
    /\ threads = <<>>

\* A faulty opening: the lexicons are not counted.
OpenAndInitializeNoCount ==
    /\ pc = "open"
    /\ LET initialized == initialize_database(db)
       IN IF ~initialized.ok
          THEN /\ pc' = "failed"
               /\ UNCHANGED <<db, load>>
          ELSE /\ db' = initialized.val
               /\ load' = [load EXCEPT !.initialized = TRUE]
               /\ pc' = IF load.needs_population THEN "clear" ELSE "loaded"
    /\ UNCHANGED <<resource, tx, result, codec, foreign_keys, mutex, threads>>

\* Steps 2 to 4: open_db_connection, initialize_database in its own transaction,
\* and the count of lexicons when neither a new file nor force_reload asks for a
\* population.
OpenAndInitialize ==
    /\ pc = "open"
    /\ LET initialized == initialize_database(db)
       IN IF ~initialized.ok
          THEN /\ pc' = "failed"
               /\ UNCHANGED <<db, load>>
          ELSE LET needs_population == load.needs_population \/ initialized.val.lexicons = {}
               IN /\ db' = initialized.val
                  /\ load' = [load EXCEPT !.needs_population = needs_population,
                                          !.initialized = TRUE]
                  /\ pc' = IF needs_population THEN "clear" ELSE "loaded"
    /\ UNCHANGED <<resource, tx, result, codec, foreign_keys, mutex, threads>>

\* Step 5, first part: with force_reload on an existing file the data is cleared
\* in a transaction of its own, which is committed.
ClearExisting ==
    /\ pc = "clear"
    /\ db' = IF load.force_reload /\ load.db_exists THEN clear_database_data(db) ELSE db
    /\ pc' = "acquire"
    /\ UNCHANGED <<resource, tx, result, codec, foreign_keys, load, mutex, threads>>

\* data::ensure_data and the reading of the file: either may return an error,
\* which load_with_options returns.
EnsureData ==
    /\ pc = "acquire"
    /\ \E ok \in BOOLEAN : pc' = IF ok THEN "parse" ELSE "failed"
    /\ load' = [load EXCEPT !.acquired = TRUE]
    /\ UNCHANGED <<resource, db, tx, result, codec, foreign_keys, mutex, threads>>

\* parse_lmf: an error is returned, or the resource is handed to
\* populate_database.
ParseLmf ==
    /\ pc = "parse"
    /\ \E ok \in BOOLEAN :
          /\ pc' = IF ok THEN "start" ELSE "failed"
          /\ load' = [load EXCEPT !.parsed = ok]
    /\ UNCHANGED <<resource, db, tx, result, codec, foreign_keys, mutex, threads>>

\* A reader on a connection of its own scans the entries of the committed content.
ReadCommitted ==
    /\ result' = [op |-> "all_entries", args |-> <<>>, ret |-> all_entries(db)]
    /\ UNCHANGED <<resource, db, tx, pc, codec, foreign_keys, load, mutex, threads>>

NextLoad ==
    \/ OpenAndInitialize
    \/ ClearExisting
    \/ EnsureData
    \/ ParseLmf
    \/ BeginTransaction
    \/ Pass1
    \/ Pass2
    \/ Pass3
    \/ Commit
    \/ ReadCommitted

SpecLoad == InitLoad /\ [][NextLoad]_vars

(***************************************************************************)
(* Threads holding clones of one WordNet: every public query locks the     *)
(* Mutex around the connection (conn_guard), runs its statements, and      *)
(* releases the lock when it returns.                                      *)
(***************************************************************************)
MaxThreads == 2

\* The calls the threads make.
ThreadCalls ==
    {[op |-> "get_synset", args |-> <<"syn1">>],
     [op |-> "get_synset", args |-> <<"syn9">>],
     [op |-> "get_senses_for_synset", args |-> <<"syn1">>],
     [op |-> "get_random_entry", args |-> <<>>]}

\* What a call returns when it runs alone on the tables d.
Answers(d, call) ==
    IF call.op = "get_synset" THEN {get_synset(d, call.args[1])}
    ELSE IF call.op = "get_senses_for_synset" THEN {get_senses_for_synset(d, call.args[1])}
    ELSE get_random_entry(d)

InitThreads ==
    /\ resource \in {TwoLexicons("w2", "s2", "syn2"),
                     RelationResource(<<SenseRelation("Antonym", "s2")>>,
                                      <<SenseRelation("Antonym", "s1")>>, <<>>, <<>>)}
    /\ foreign_keys = TRUE
    /\ db = Populated(resource)
    /\ tx = NoTx
    /\ pc = "loaded"
    /\ result = NoResult
    /\ codec = [stage |-> "idle"]
    /\ load = [stage |-> "populate"]
    /\ mutex = [locked |-> FALSE]
    /\ threads = [t \in 1..MaxThreads |-> [stage |-> "idle"]]

\* A thread calls a public query on its clone.
Call(t) ==
    /\ threads[t].stage \in {"idle", "done"}
    /\ \E call \in ThreadCalls :
          threads' = [threads EXCEPT ![t] = [stage |-> "waiting", call |-> call]]
    /\ UNCHANGED <<resource, db, tx, pc, result, codec, foreign_keys, load, mutex>>

\* A faulty lock: granted while another thread holds it.
LockUnguarded(t) ==
    /\ threads[t].stage = "waiting"
    /\ mutex' = [locked |-> TRUE, owner |-> t]
    /\ threads' = [threads EXCEPT ![t].stage = "holding"]
    /\ UNCHANGED <<resource, db, tx, pc, result, codec, foreign_keys, load>>

\* The Mutex after a thread panicked while it held the guard.

\* self.conn.lock(): granted when no thread holds the Mutex.  On a poisoned
\* Mutex lock() returns Err, which map_err turns into OewnError::Internal; the
\* guard inside the error is dropped at once.
Lock(t) ==
    /\ threads[t].stage = "waiting"
    /\ ~mutex.locked
    /\ IF mutex = [locked |-> FALSE, poisoned |-> TRUE]
       THEN /\ mutex' = mutex
            /\ threads' = [threads EXCEPT ![t] =
                              [stage |-> "done", call |-> threads[t].call,
                               ret |-> Err("Internal", "Mutex poisoned")]]
       ELSE /\ mutex' = [locked |-> TRUE, owner |-> t]
            /\ threads' = [threads EXCEPT ![t].stage = "holding"]
    /\ UNCHANGED <<resource, db, tx, pc, result, codec, foreign_keys, load>>

\* A faulty return: conn_guard is kept.
ReturnKeepingGuard(t) ==
    /\ threads[t].stage = "holding"
    /\ \E ret \in Answers(db, threads[t].call) :
          threads' = [threads EXCEPT ![t] =
                         [stage |-> "done", call |-> threads[t].call, ret |-> ret]]
    /\ UNCHANGED <<resource, db, tx, pc, result, codec, foreign_keys, load, mutex>>

\* The statements run on the connection and the function returns: conn_guard is
\* dropped, which releases the Mutex.
Return(t) ==
    /\ threads[t].stage = "holding"
    /\ \E ret \in Answers(db, threads[t].call) :
          threads' = [threads EXCEPT ![t] =
                         [stage |-> "done", call |-> threads[t].call, ret |-> ret]]
    /\ mutex' = [locked |-> FALSE]
    /\ UNCHANGED <<resource, db, tx, pc, result, codec, foreign_keys, load>>

NextThreads == \E t \in 1..MaxThreads : Call(t) \/ Lock(t) \/ Return(t)

SpecThreads == InitThreads /\ [][NextThreads]_vars

\* A thread panics while it holds the guard: the unwinding drops the guard and
\* poisons the Mutex.
Panic(t) ==
    /\ threads[t].stage = "holding"
    /\ threads' = [threads EXCEPT ![t].stage = "panicked"]
    /\ mutex' = [locked |-> FALSE, poisoned |-> TRUE]
    /\ UNCHANGED <<resource, db, tx, pc, result, codec, foreign_keys, load>>

NextThreadsFair == \E t \in 1..MaxThreads : Call(t) \/ Lock(t) \/ Return(t) \/ Panic(t)

\* A thread that holds the guard goes on to its return, and a thread that waits
\* for a Mutex that is free again and again is granted it.
SpecThreadsFair ==
    /\ InitThreads
    /\ [][NextThreadsFair]_vars
    /\ \A t \in 1..MaxThreads : WF_vars(Return(t)) /\ SF_vars(Lock(t))

(***************************************************************************)
(* Two load_with_options calls on one database path, each on a connection  *)
(* of its own.  SQLite lets one connection write at a time: while one      *)
(* call's transaction is open, a statement of the other that has to write  *)
(* waits for it or returns SQLITE_BUSY.  db is the committed content.      *)
(***************************************************************************)
\* The other call holds the write lock.
OtherWriting(t) == tx # NoTx /\ tx.owner # t

InitTwoLoads ==
    /\ resource \in {TwoLexicons("w2", "s2", "syn2"), TwoLexicons("w2", "s1", "syn2")}
    /\ foreign_keys = TRUE
    /\ \E db_exists \in BOOLEAN :
          /\ db = IF db_exists THEN EmptyTables ELSE [EmptyTables EXCEPT !.metadata = {}]
          /\ load = [stage |-> "two_loads", db_exists |-> db_exists]
    /\ tx = NoTx
    /\ pc = "open"
    /\ result = NoResult
    /\ codec = [stage |-> "idle"]
    /\ mutex = [locked |-> FALSE]
    /\ threads \in [1..MaxThreads ->
                      {[stage |-> "exists", force_reload |-> f, db_exists |-> FALSE,
                        needs_population |-> FALSE, ret |-> NoResult] : f \in BOOLEAN}]

\* Step 1: db_path.exists() and the first value of needs_population.
CheckExists(t) ==
    /\ threads[t].stage = "exists"
    /\ threads' = [threads EXCEPT
                      ![t].db_exists = load.db_exists,
                      ![t].needs_population = ~load.db_exists \/ threads[t].force_reload,
                      ![t].stage = "open"]
    /\ UNCHANGED <<resource, db, tx, pc, result, codec, foreign_keys, load, mutex>>

\* Steps 2 and 3: open_db_connection creates the file; initialize_database runs
\* in a transaction of its own, which fails when it has to write while the other
\* call is writing.
OpenInitialize(t) ==
    /\ threads[t].stage = "open"
    /\ load' = [load EXCEPT !.db_exists = TRUE]
    /\ LET initialized == initialize_database(db)
       IN IF ~initialized.ok
          THEN threads' = [threads EXCEPT ![t].stage = "done", ![t].ret = Err(initialized.err.kind, initialized.err.arg)] /\ db' = db
          ELSE IF OtherWriting(t) /\ initialized.val # db
          THEN threads' = [threads EXCEPT ![t].stage = "done", ![t].ret = Err("DbError", "database is locked")] /\ db' = db
          ELSE /\ db' = initialized.val
               /\ threads' = [threads EXCEPT ![t].stage =
                                 IF threads[t].needs_population THEN "clear" ELSE "count"]
    /\ UNCHANGED <<resource, tx, pc, result, codec, foreign_keys, mutex>>

\* Step 4: SELECT COUNT(*) FROM lexicons reads the committed content.
CountLexicons(t) ==
    /\ threads[t].stage = "count"
    /\ threads' = [threads EXCEPT
                      ![t].needs_population = db.lexicons = {},
                      ![t].stage = IF db.lexicons = {} THEN "clear" ELSE "return"]
    /\ UNCHANGED <<resource, db, tx, pc, result, codec, foreign_keys, load, mutex>>

\* Step 5, first part: with force_reload on a file that existed the data is
\* cleared in a transaction that is committed at once.
ClearData(t) ==
    /\ threads[t].stage = "clear"
    /\ IF threads[t].force_reload /\ threads[t].db_exists
       THEN IF OtherWriting(t)
            THEN threads' = [threads EXCEPT ![t].stage = "done", ![t].ret = Err("DbError", "database is locked")] /\ db' = db
            ELSE /\ db' = clear_database_data(db)
                 /\ threads' = [threads EXCEPT ![t].stage = "acquire"]
       ELSE /\ db' = db
            /\ threads' = [threads EXCEPT ![t].stage = "acquire"]
    /\ UNCHANGED <<resource, tx, pc, result, codec, foreign_keys, load, mutex>>

\* ensure_data, the reading of the file and parse_lmf: any of them may fail.
AcquireAndParse(t) ==
    /\ threads[t].stage = "acquire"
    /\ \/ threads' = [threads EXCEPT ![t].stage = "populate"]
       \/ threads' = [threads EXCEPT ![t].stage = "done", ![t].ret = Err("Io", "ensure_data")]
    /\ UNCHANGED <<resource, db, tx, pc, result, codec, foreign_keys, load, mutex>>

\* populate_database up to its commit: the first INSERT takes the write lock, or
\* fails while the other call holds it; a failed execute rolls back.
Populate(t) ==
    /\ threads[t].stage = "populate"
    /\ IF OtherWriting(t)
       THEN /\ tx' = tx
            /\ threads' = [threads EXCEPT ![t].stage = "done", ![t].ret = Err("DbError", "database is locked")]
       ELSE LET st == RunPass3(RunPass2(RunPass1(Running(db), resource), resource), resource)
            IN IF st.ok
               THEN /\ tx' = [open |-> TRUE, st |-> st, owner |-> t]
                    /\ threads' = [threads EXCEPT ![t].stage = "commit"]
               ELSE /\ tx' = tx
                    /\ threads' = [threads EXCEPT ![t].stage = "done", ![t].ret = Err("DbError", "constraint failed")]
    /\ UNCHANGED <<resource, db, pc, result, codec, foreign_keys, load, mutex>>

\* tx.commit() of populate_database.
CommitPopulate(t) ==
    /\ threads[t].stage = "commit"
    /\ db' = tx.st.t
    /\ tx' = NoTx
    /\ threads' = [threads EXCEPT ![t].stage = "return"]
    /\ UNCHANGED <<resource, pc, result, codec, foreign_keys, load, mutex>>

\* Ok(WordNet { conn }): the handle is over the committed content of that moment.
ReturnHandle(t) ==
    /\ threads[t].stage = "return"
    /\ threads' = [threads EXCEPT ![t].stage = "done", ![t].ret = Ok(db)]
    /\ UNCHANGED <<resource, db, tx, pc, result, codec, foreign_keys, load, mutex>>

NextTwoLoads ==
    \E t \in 1..MaxThreads :
        \/ CheckExists(t)
        \/ OpenInitialize(t)
        \/ CountLexicons(t)
        \/ ClearData(t)
        \/ AcquireAndParse(t)
        \/ Populate(t)
        \/ CommitPopulate(t)
        \/ ReturnHandle(t)

SpecTwoLoads == InitTwoLoads /\ [][NextTwoLoads]_vars

(***************************************************************************)
(* data.rs: ensure_data on the data directory.  The archive has            *)
(* ArchiveChunks chunks; a file is absent, or holds the chunks written to  *)
(* it so far: the .gz is complete with ArchiveChunks chunks, the .xml is   *)
(* complete with the decompression of all of them.  load holds the two     *)
(* files, the position of the running call, the steps it has taken, what   *)
(* the files were when it was called, and what the last call returned.     *)
(***************************************************************************)
ArchiveChunks == 4

\* Calls of ensure_data in one behaviour.
MaxCalls == 4

InitData ==
    /\ resource = LexicalResource(<<>>)
    /\ foreign_keys = TRUE
    /\ db = EmptyTables
    /\ tx = NoTx
    /\ pc = "acquire"
    /\ result = NoResult
    /\ codec = [stage |-> "idle"]
    /\ mutex = [locked |-> FALSE]
    /\ threads = <<>>
    /\ \E gz \in {[exists |-> FALSE, chunks |-> 0], [exists |-> TRUE, chunks |-> ArchiveChunks]},
          xml \in {[exists |-> FALSE, chunks |-> 0], [exists |-> TRUE, chunks |-> ArchiveChunks]} :
          load = [stage |-> "data", at |-> "idle", gz |-> gz, xml |-> xml,
                  before |-> [gz |-> gz, xml |-> xml], steps |-> <<>>,
                  ret |-> NoResult, calls |-> 0]

\* A faulty ensure_data: the archive is downloaded although the .gz exists.
ensure_data_always_downloading ==
    /\ load.at = "idle"
    /\ load.calls < MaxCalls
    /\ LET called == [load EXCEPT !.calls = @ + 1, !.steps = <<>>, !.ret = NoResult,
                                  !.before = [gz |-> load.gz, xml |-> load.xml]]
       IN load' = IF load.xml.exists
                  THEN [called EXCEPT !.at = "idle", !.ret = Ok("english-wordnet-2024.xml")]
                  ELSE [called EXCEPT !.at = "download"]
    /\ UNCHANGED <<resource, db, tx, pc, result, codec, foreign_keys, mutex, threads>>

\* ensure_data up to its first step: the path of the XML file if it exists,
\* otherwise the download if the .gz does not exist, otherwise the decompression.
ensure_data ==
    /\ load.at = "idle"
    /\ load.calls < MaxCalls
    /\ LET called == [load EXCEPT !.calls = @ + 1, !.steps = <<>>, !.ret = NoResult,
                                  !.before = [gz |-> load.gz, xml |-> load.xml]]
       IN load' = IF load.xml.exists
                  THEN [called EXCEPT !.at = "idle", !.ret = Ok("english-wordnet-2024.xml")]
                  ELSE IF ~load.gz.exists
                  THEN [called EXCEPT !.at = "download"]
                  ELSE [called EXCEPT !.at = "decompress"]
    /\ UNCHANGED <<resource, db, tx, pc, result, codec, foreign_keys, mutex, threads>>

\* download_file: the request fails before the file is created, or the stream
\* fails after some chunks were written, or every chunk is written.
download_file ==
    /\ load.at = "download"
    /\ LET started == [load EXCEPT !.steps = Append(@, "download")]
       IN \/ load' = [started EXCEPT !.at = "idle", !.ret = Err("Network", "request")]
          \/ \E k \in 0..(ArchiveChunks - 1) :
                load' = [started EXCEPT !.gz = [exists |-> TRUE, chunks |-> k],
                                        !.at = "idle", !.ret = Err("Network", "stream")]
          \/ load' = [started EXCEPT !.gz = [exists |-> TRUE, chunks |-> ArchiveChunks],
                                     !.at = "decompress"]
    /\ UNCHANGED <<resource, db, tx, pc, result, codec, foreign_keys, mutex, threads>>

\* decompress_gz: the XML file is created, then io::copy writes what the decoder
\* yields.  A truncated archive ends in an error after the chunks it holds; a
\* write may fail part-way; an archive of no byte is an error or an empty
\* document, as the decoder of the build has it.
decompress_gz ==
    /\ load.at = "decompress"
    /\ LET started == [load EXCEPT !.steps = Append(@, "decompress")]
       IN \/ \E j \in 0..load.gz.chunks :
                /\ j < ArchiveChunks
                /\ load' = [started EXCEPT !.xml = [exists |-> TRUE, chunks |-> j],
                                           !.at = "idle", !.ret = Err("Io", "copy")]
          \/ /\ load.gz.chunks \in {0, ArchiveChunks}
             /\ load' = [started EXCEPT !.xml = [exists |-> TRUE, chunks |-> load.gz.chunks],
                                        !.at = "idle",
                                        !.ret = Ok("english-wordnet-2024.xml")]
    /\ UNCHANGED <<resource, db, tx, pc, result, codec, foreign_keys, mutex, threads>>

NextData ==
    \/ ensure_data
    \/ download_file
    \/ decompress_gz

SpecData == InitData /\ [][NextData]_vars

(***************************************************************************)
(* db.rs, progress.rs: populate_database execute by execute, reporting to  *)
(* a tokio mpsc channel.  load holds the reporter argument (None or Some), *)
(* the channel (its capacity, the updates queued in it, whether the        *)
(* receiver was dropped), the updates the receiver has taken, every update *)
(* handed to report_progress so far, the executes the loops are to make,   *)
(* the counters of the running pass and what the function returned.        *)
(***************************************************************************)
\* The buffer_size of create_progress_channel; mpsc::channel panics on 0.
ChannelCapacity == 1

\* ProgressUpdate::new and the struct literals; total_items is always Some.
ProgressUpdate(description, current, total, message) ==
    [stage_description |-> description, current_item |-> current,
     total_items |-> total, message |-> message]

\* let _ = reporter.try_send(update): the update is queued if the receiver
\* lives and the buffer has room; Err(Full) and Err(Closed) are discarded.
report_progress_non_blocking(l, update) ==
    IF l.closed \/ Len(l.queue) >= l.capacity
    THEN l
    ELSE [l EXCEPT !.queue = Append(@, update)]

\* if let Some(reporter) = reporter { ... }
report_progress(l, update) ==
    LET handed == [l EXCEPT !.reported = Append(@, update)]
    IN IF l.reporter = "None" THEN handed
       ELSE report_progress_non_blocking(handed, update)

\* The executes of the three passes, in the order of the loops, each with the
\* message of the update that follows it.
Statements(res) ==
    LET Concat(seqs) == FoldSeq(LAMBDA acc, x : acc \o x, <<>>, seqs)
        Stmt(table, parent, item, message) ==
            [table |-> table, parent |-> parent, item |-> item, message |-> message]
        Core(l) ==
            <<Stmt("lexicons", l, l, "Lexicon: " \o l.id)>>
            \o [i \in 1..Len(l.lexical_entries) |->
                    Stmt("lexical_entries", l, l.lexical_entries[i],
                         "Entry: " \o l.lexical_entries[i].id)]
            \o [i \in 1..Len(l.synsets) |->
                    Stmt("synsets", l, l.synsets[i], "Synset: " \o l.synsets[i].id)]
        EntryDetails(e) ==
            [i \in 1..Len(e.pronunciations) |->
                Stmt("pronunciations", e, e.pronunciations[i],
                     "Pronunciation for Entry: " \o e.id)]
            \o [i \in 1..Len(e.senses) |->
                    Stmt("senses", e, e.senses[i], "Sense: " \o e.senses[i].id)]
        SynsetDetails(y) ==
            [i \in 1..Len(y.definitions) |->
                Stmt("definitions", y, y.definitions[i],
                     "Definition for Synset: " \o y.id)]
            \o [i \in 1..Len(y.ili_definition) |->
                    Stmt("ili_definitions", y, y.ili_definition[i],
                         "ILI Definition for Synset: " \o y.id)]
            \o [i \in 1..Len(y.examples) |->
                    Stmt("examples", y, y.examples[i], "Example for Synset: " \o y.id)]
        Details(l) ==
            Concat([i \in 1..Len(l.lexical_entries) |-> EntryDetails(l.lexical_entries[i])])
            \o Concat([i \in 1..Len(l.synsets) |-> SynsetDetails(l.synsets[i])])
        SenseRelations(x) ==
            [i \in 1..Len(x.sense_relations) |->
                Stmt("sense_relations", x, x.sense_relations[i],
                     "Sense Relation from: " \o x.id)]
        SynsetRelations(y) ==
            [i \in 1..Len(y.synset_relations) |->
                Stmt("synset_relations", y, y.synset_relations[i],
                     "Synset Relation from: " \o y.id)]
        Relations(l) ==
            Concat([i \in 1..Len(l.lexical_entries) |->
                      Concat([j \in 1..Len(l.lexical_entries[i].senses) |->
                                SenseRelations(l.lexical_entries[i].senses[j])])])
            \o Concat([i \in 1..Len(l.synsets) |-> SynsetRelations(l.synsets[i])])
    IN <<Concat([i \in 1..Len(res.lexicons) |-> Core(res.lexicons[i])]),
         Concat([i \in 1..Len(res.lexicons) |-> Details(res.lexicons[i])]),
         Concat([i \in 1..Len(res.lexicons) |-> Relations(res.lexicons[i])])>>

\* stmt.execute(params![...]) of one statement.
Execute(st, s) ==
    CASE s.table = "lexicons" -> InsertLexicon(st, s.item)
      [] s.table = "lexical_entries" -> InsertEntry(st, s.parent, s.item)
      [] s.table = "synsets" -> InsertSynset(st, s.parent, s.item)
      [] s.table = "pronunciations" -> InsertPronunciation(st, s.parent, s.item)
      [] s.table = "senses" -> InsertSense(st, s.parent, s.item)
      [] s.table = "definitions" -> InsertDefinition(st, s.parent, s.item)
      [] s.table = "ili_definitions" -> InsertIliDefinition(st, s.parent, s.item)
      [] s.table = "examples" -> InsertExample(st, s.parent, s.item)
      [] s.table = "sense_relations" -> InsertSenseRelation(st, s.parent, s.item)
      [] s.table = "synset_relations" -> InsertSynsetRelation(st, s.parent, s.item)

\* The stage_description of each pass.
StageDescriptions ==
    <<"Pass 1/3: Inserting Core Entities", "Pass 2/3: Inserting Details",
      "Pass 3/3: Inserting Relations">>

\* populate_database is called on a new database with a resource and a reporter:
\* None, or the Sender of a channel whose receiver lives or was dropped.
InitProgress ==
    /\ resource \in
          {LexicalResource(<<Lexicon("oewn",
              <<LexicalEntry("w1", "cat", "N", <<PronGB>>,
                  <<Sense("s1", "syn1", <<SenseRelation("Antonym", "s1"),
                                          SenseRelation("Antonym", "s1")>>)>>)>>,
              <<PlainSynset("syn1", "w1", <<>>)>>)>>),
           TwoLexicons("w2", "s1", "syn2")}
    /\ foreign_keys = TRUE
    /\ db = EmptyTables
    /\ tx = NoTx
    /\ pc = "start"
    /\ result = NoResult
    /\ codec = [stage |-> "idle"]
    /\ mutex = [locked |-> FALSE]
    /\ threads = <<>>
    /\ \E reporter \in {"None", "Some"}, closed \in BOOLEAN, capacity \in 1..ChannelCapacity :
          /\ reporter = "None" => ~closed /\ capacity = 1
          /\ load = [stage |-> "progress", reporter |-> reporter, closed |-> closed,
                     capacity |-> capacity, queue |-> <<>>, received |-> <<>>,
                     reported |-> <<>>, statements |-> <<>>,
                     totals |-> <<0, 0, 0>>, pass |-> 0,
                     next |-> 0, current |-> 0, ret |-> NoResult]

\* The totals of the passes are counted, the transaction is opened, and pass 1 is
\* announced.
BeginPopulate ==
    /\ load.stage = "progress"
    /\ pc = "start"
    /\ LET Sum(f) == FoldSeq(LAMBDA a, b : a + b, 0, f)
           lexicons == resource.lexicons
           entries == FoldSeq(LAMBDA acc, l : acc \o l.lexical_entries, <<>>, lexicons)
           synsets == FoldSeq(LAMBDA acc, l : acc \o l.synsets, <<>>, lexicons)
           senses == FoldSeq(LAMBDA acc, e : acc \o e.senses, <<>>, entries)
           total_lexicons == Len(lexicons)
           total_entries == Sum([i \in 1..Len(lexicons) |-> Len(lexicons[i].lexical_entries)])
           total_synsets == Sum([i \in 1..Len(lexicons) |-> Len(lexicons[i].synsets)])
           total_pronunciations ==
               Sum([i \in 1..Len(entries) |-> Len(entries[i].pronunciations)])
           total_senses == Sum([i \in 1..Len(entries) |-> Len(entries[i].senses)])
           total_definitions == Sum([i \in 1..Len(synsets) |-> Len(synsets[i].definitions)])
           total_ili_definitions ==
               Len(SelectSeq(synsets, LAMBDA y : y.ili_definition # <<>>))
           total_examples == Sum([i \in 1..Len(synsets) |-> Len(synsets[i].examples)])
           total_sense_relations ==
               Sum([i \in 1..Len(senses) |-> Len(senses[i].sense_relations)])
           total_synset_relations ==
               Sum([i \in 1..Len(synsets) |-> Len(synsets[i].synset_relations)])
           pass1_total == total_lexicons + total_entries + total_synsets
           pass2_total == total_pronunciations + total_senses + total_definitions
                            + total_ili_definitions + total_examples
           pass3_total == total_sense_relations + total_synset_relations
       IN load' = report_progress(
                      [load EXCEPT !.statements = Statements(resource),
                                   !.totals = <<pass1_total, pass2_total, pass3_total>>,
                                   !.pass = 1, !.next = 1, !.current = 0],
                      ProgressUpdate(StageDescriptions[1], 0, pass1_total, None))
    /\ tx' = [open |-> TRUE, st |-> Running(db)]
    /\ pc' = "pass"
    /\ UNCHANGED <<resource, db, result, codec, foreign_keys, mutex, threads>>

\* A faulty step: the update is sent with send(update).await, which waits for
\* room in the buffer.
ExecuteNextAwaitingRoom ==
    /\ load.stage = "progress"
    /\ pc = "pass"
    /\ load.next <= Len(load.statements[load.pass])
    /\ load.reporter = "None" \/ load.closed \/ Len(load.queue) < load.capacity
    /\ LET s == load.statements[load.pass][load.next]
           st == Execute(tx.st, s)
       IN IF st.ok
          THEN /\ tx' = [tx EXCEPT !.st = st]
               /\ pc' = pc
               /\ load' = report_progress(
                              [load EXCEPT !.next = @ + 1, !.current = @ + 1],
                              ProgressUpdate(StageDescriptions[load.pass], load.current + 1,
                                             load.totals[load.pass], s.message))
          ELSE /\ tx' = NoTx
               /\ pc' = "failed"
               /\ load' = [load EXCEPT !.ret = Err("DbError", "constraint failed")]
    /\ UNCHANGED <<resource, db, result, codec, foreign_keys, mutex, threads>>

\* The next execute of the running pass.  Err returns from the function, and the
\* dropped Transaction rolls back; Ok (an ignored duplicate relation too) adds one
\* to the pass's counter, and the counter is reported.
ExecuteNext ==
    /\ load.stage = "progress"
    /\ pc = "pass"
    /\ load.next <= Len(load.statements[load.pass])
    /\ LET s == load.statements[load.pass][load.next]
           st == Execute(tx.st, s)
       IN IF st.ok
          THEN /\ tx' = [tx EXCEPT !.st = st]
               /\ pc' = pc
               /\ load' = report_progress(
                              [load EXCEPT !.next = @ + 1, !.current = @ + 1],
                              ProgressUpdate(StageDescriptions[load.pass], load.current + 1,
                                             load.totals[load.pass], s.message))
          ELSE /\ tx' = NoTx
               /\ pc' = "failed"
               /\ load' = [load EXCEPT !.ret = Err("DbError", "constraint failed")]
    /\ UNCHANGED <<resource, db, result, codec, foreign_keys, mutex, threads>>

\* The loops of the pass are done: the next pass is announced and its counter
\* starts at 0; after pass 3 the statements are dropped.
NextPass ==
    /\ load.stage = "progress"
    /\ pc = "pass"
    /\ load.next > Len(load.statements[load.pass])
    /\ IF load.pass < 3
       THEN /\ load' = report_progress(
                           [load EXCEPT !.pass = @ + 1, !.next = 1, !.current = 0],
                           ProgressUpdate(StageDescriptions[load.pass + 1], 0,
                                          load.totals[load.pass + 1], None))
            /\ pc' = pc
       ELSE /\ load' = load
            /\ pc' = "commit"
    /\ UNCHANGED <<resource, db, tx, result, codec, foreign_keys, mutex, threads>>

\* tx.commit()?; Ok(())
CommitPopulated ==
    /\ load.stage = "progress"
    /\ pc = "commit"
    /\ db' = tx.st.t
    /\ tx' = NoTx
    /\ pc' = "loaded"
    /\ load' = [load EXCEPT !.ret = Ok("()")]
    /\ UNCHANGED <<resource, result, codec, foreign_keys, mutex, threads>>

\* progress_rx.recv().await takes the oldest queued update.
Receive ==
    /\ load.stage = "progress"
    /\ load.reporter = "Some"
    /\ ~load.closed
    /\ load.queue # <<>>
    /\ load' = [load EXCEPT !.received = Append(@, Head(load.queue)),
                            !.queue = Tail(@)]
    /\ UNCHANGED <<resource, db, tx, pc, result, codec, foreign_keys, mutex, threads>>

\* The Receiver is dropped: the channel is closed and what it held is lost.
DropReceiver ==
    /\ load.stage = "progress"
    /\ load.reporter = "Some"
    /\ ~load.closed
    /\ load' = [load EXCEPT !.closed = TRUE, !.queue = <<>>]
    /\ UNCHANGED <<resource, db, tx, pc, result, codec, foreign_keys, mutex, threads>>

NextProgress ==
    \/ BeginPopulate
    \/ ExecuteNext
    \/ NextPass
    \/ CommitPopulated
    \/ Receive
    \/ DropReceiver

\* The thread that called populate_database keeps running it; nothing makes the
\* receiver take an update.
SpecProgress ==
    /\ InitProgress
    /\ [][NextProgress]_vars
    /\ WF_vars(BeginPopulate \/ ExecuteNext \/ NextPass \/ CommitPopulated)

(***************************************************************************)
(* Properties of the loaded database.  Committed is the state tx.commit()  *)
(* leaves behind; no query changes db, so what a query function returns on *)
(* the tables of that state is what every later call returns.              *)
(***************************************************************************)
Committed == pc = "loaded" /\ result = NoResult

\* C1: after the commit, every entry E of the resource is found by
\* lookup_entries(E.written_form, Some(E.part_of_speech)) and by
\* lookup_entries(E.written_form, None).
C1_LookupFindsEveryEntry ==
    Committed =>
        \A E \in EntriesOf(resource) :
            LET a == lookup_entries(db, E.lemma.written_form, E.lemma.part_of_speech)
                b == lookup_entries(db, E.lemma.written_form, None)
            IN /\ a.ok /\ \E x \in Range(a.val) : x.id = E.id
               /\ b.ok /\ \E x \in Range(b.val) : x.id = E.id

\* A lookup by an entry's own written form and part of speech returned that entry.
C1_Witness ==
    /\ result.op = "lookup_entries"
    /\ \E E \in EntriesOf(resource) :
          /\ result.args = <<E.lemma.written_form, E.lemma.part_of_speech>>
          /\ result.ret.ok
          /\ \E x \in Range(result.ret.val) : x.id = E.id

\* C2: lookup_entries(Q, F) returns exactly the entries whose lower-cased written
\* form is lower-cased Q and whose part of speech is F when F is given, each once,
\* and Ok with an empty list when there is none.
C2_LookupExact ==
    Committed =>
        \A Q \in Args.lemma \cup {E.lemma.written_form : E \in EntriesOf(resource)},
           F \in Args.pos_filter :
            LET r == lookup_entries(db, Q, F)
                matching == {E \in EntriesOf(resource) :
                                /\ ToLowercase(E.lemma.written_form) = ToLowercase(Q)
                                /\ (F = None \/ E.lemma.part_of_speech = F)}
            IN /\ r.ok
               /\ {<<x.id, x.lemma>> : x \in Range(r.val)}
                    = {<<E.id, E.lemma>> : E \in matching}
               /\ Len(r.val) = Cardinality(matching)

\* "CAT" found the two entries written "cat" and "Cat".
C2_Witness ==
    /\ result.op = "lookup_entries"
    /\ result.args = <<"CAT", None>>
    /\ result.ret.ok
    /\ {x.lemma.written_form : x \in Range(result.ret.val)} = {"cat", "Cat"}
    /\ Len(result.ret.val) = 2

\* C3: for every synset X of the resource, the sense ids get_senses_for_synset(X.id)
\* returns are the derived membership of X: the senses aiming at X whose owning
\* entry is listed in X.members.
C3_SensesAreDerivedMembership ==
    Committed =>
        \A X \in SynsetsOf(resource) :
            LET r == get_senses_for_synset(db, X.id)
            IN r.ok /\ {x.id : x \in Range(r.val)} =
                    {s.id : s \in {t \in UNION {Range(e.senses)
                                  : e \in {f \in EntriesOf(resource)
                                             : f.id \in Range(parse_members(X.members))}}
                                    : t.synset = X.id}}

\* get_senses_for_synset returned a sense whose owning entry the synset's members
\* attribute does not list.
C3_Witness ==
    /\ result.op = "get_senses_for_synset"
    /\ result.ret.ok
    /\ \E X \in SynsetsOf(resource), e \in EntriesOf(resource) :
          /\ result.args = <<X.id>>
          /\ e.id \notin Range(parse_members(X.members))
          /\ \E x \in Range(result.ret.val), s \in Range(e.senses) : x.id = s.id

\* C4: a sense is in the result of get_senses_for_synset(X) only if it aims at X, so
\* no sense is in the results of two synsets.
C4_MembershipExclusive ==
    Committed =>
        LET ids == Args.synset_id \cup {X.id : X \in SynsetsOf(resource)}
            of(X) == Range(get_senses_for_synset(db, X).val)
        IN /\ \A X \in ids : \A x \in of(X) :
                /\ x.synset = X
                /\ \E s \in SensesOf(resource) : s.id = x.id /\ s.synset = X
           /\ \A X \in ids, Y \in ids :
                X # Y => {x.id : x \in of(X)} \cap {y.id : y \in of(Y)} = {}

\* An entry has senses in two synsets, and the query for one of the two returned
\* that entry's sense aiming at it and not the other.
C4_Witness ==
    /\ result.op = "get_senses_for_synset"
    /\ result.ret.ok
    /\ \E e \in EntriesOf(resource) : \E s \in Range(e.senses), t \in Range(e.senses) :
          /\ s.synset # t.synset
          /\ result.args = <<s.synset>>
          /\ s.id \in {x.id : x \in Range(result.ret.val)}
          /\ t.id \notin {x.id : x \in Range(result.ret.val)}

\* C5: for every sense S of entry e, get_entry_id_for_sense(S.id) is Some(e.id),
\* and get_senses_for_entry(e.id) and get_entry_by_id(e.id) both list S.id; for an
\* id that is no sense, get_entry_id_for_sense is Ok(None).
C5_OwnershipConsistent ==
    Committed =>
        /\ \A e \in EntriesOf(resource) : \A S \in Range(e.senses) :
              LET a == get_senses_for_entry(db, e.id)
                  b == get_entry_by_id(db, e.id)
              IN /\ get_entry_id_for_sense(db, S.id) = Ok(e.id)
                 /\ a.ok /\ S.id \in {x.id : x \in Range(a.val)}
                 /\ b.ok /\ b.val # <<>>
                 /\ S.id \in {x.id : x \in Range(b.val[1].senses)}
        /\ \A id \in Args.sense_id \ {S.id : S \in SensesOf(resource)} :
              get_entry_id_for_sense(db, id) = Ok(None)

\* get_entry_id_for_sense answered with the entry that holds the sense in the
\* resource, an entry that is not the first of its lexicon.
C5_Witness ==
    /\ result.op = "get_entry_id_for_sense"
    /\ \E e \in EntriesOf(resource) : \E S \in Range(e.senses) :
          /\ result.args = <<S.id>>
          /\ e.id = "w2"
          /\ result.ret = Ok(e.id)

\* C6: get_related_synsets(S, K) returns exactly the synsets T for which the
\* resource declares a relation of kind K from S to T, each once, and Ok with an
\* empty list when there is none or S is no synset.
C6_RelatedSynsetsSingleHop ==
    Committed =>
        \A S \in Args.synset_id \cup {X.id : X \in SynsetsOf(resource)},
           K \in SynsetRelType :
            LET r == get_related_synsets(db, S, K)
                declared == {T \in SynsetsOf(resource) :
                                \E X \in SynsetsOf(resource) :
                                    /\ X.id = S
                                    /\ SynsetRelation(K, T.id) \in Range(X.synset_relations)}
            IN /\ r.ok
               /\ {y.id : y \in Range(r.val)} = {T.id : T \in declared}
               /\ Len(r.val) = Cardinality(declared)

\* syn1 declares an instance hypernym and a hypernym; the query for the instance
\* hypernym returned its one target.
C6_Witness ==
    /\ result.op = "get_related_synsets"
    /\ result.args = <<"syn1", "InstanceHypernym">>
    /\ result.ret.ok
    /\ {y.id : y \in Range(result.ret.val)} = {"syn2"}
    /\ \E X \in SynsetsOf(resource) :
          /\ X.id = "syn1"
          /\ SynsetRelation("Hypernym", "syn1") \in Range(X.synset_relations)

\* C7: get_related_senses(s, K) returns exactly the senses t for which the resource
\* declares a relation of kind K from s to t, each once, each with the relations t
\* declares, and Ok with an empty list when there is none or s is no sense.
C7_RelatedSensesCarryRelations ==
    Committed =>
        \A s \in Args.related_sense_id \cup {x.id : x \in SensesOf(resource)},
           K \in SenseRelType :
            LET r == get_related_senses(db, s, K)
                declared == {t \in SensesOf(resource) :
                                \E x \in SensesOf(resource) :
                                    /\ x.id = s
                                    /\ SenseRelation(K, t.id) \in Range(x.sense_relations)}
            IN /\ r.ok
               /\ {y.id : y \in Range(r.val)} = {t.id : t \in declared}
               /\ Len(r.val) = Cardinality(declared)
               /\ \A y \in Range(r.val) : \A t \in declared :
                     y.id = t.id =>
                        Range(y.sense_relations) = Range(t.sense_relations)

\* get_related_senses returned s2, which declares a domain_topic relation to s3,
\* carrying a relation of kind Other to s3.
C7_Witness ==
    /\ result.op = "get_related_senses"
    /\ result.args = <<"s1", "Antonym">>
    /\ result.ret.ok
    /\ \E y \in Range(result.ret.val) :
          /\ y.id = "s2"
          /\ y.sense_relations = <<SenseRelation("Other", "s3")>>
    /\ \E t \in SensesOf(resource) :
          /\ t.id = "s2"
          /\ t.sense_relations = <<SenseRelation("DomainTopic", "s3")>>

\* C8: get_synset(id) returns the synset's record when id is a synset of the
\* resource, and otherwise the error SynsetNotFound(id), never a record.
C8_GetSynsetOrNotFound ==
    Committed =>
        \A id \in Args.synset_id \cup {X.id : X \in SynsetsOf(resource)} :
            LET r == get_synset(db, id)
            IN IF \E X \in SynsetsOf(resource) : X.id = id
               THEN LET X == CHOOSE Y \in SynsetsOf(resource) : Y.id = id
                    IN /\ r.ok
                       /\ r.val.id = id
                       /\ r.val.ili = X.ili
                       /\ r.val.part_of_speech = X.part_of_speech
                       /\ Range(r.val.definitions) = Range(X.definitions)
               ELSE r = Err("SynsetNotFound", id)

\* get_synset was called with an id that is no synset and returned SynsetNotFound.
C8_Witness ==
    /\ result.op = "get_synset"
    /\ result.args = <<"syn9">>
    /\ \A X \in SynsetsOf(resource) : X.id # "syn9"
    /\ result.ret = Err("SynsetNotFound", "syn9")

\* C9: get_sense(id) returns the sense's record when id is a sense of the resource,
\* and otherwise an error of the not-found class, the class of get_synset's
\* SynsetNotFound, not of the internal class.
C9_GetSenseOrNotFound ==
    Committed =>
        \A id \in Args.sense_id \cup {S.id : S \in SensesOf(resource)} :
            LET r == get_sense(db, id)
            IN IF \E S \in SensesOf(resource) : S.id = id
               THEN LET S == CHOOSE T \in SensesOf(resource) : T.id = id
                    IN /\ r.ok
                       /\ r.val.id = id
                       /\ r.val.synset = S.synset
                       /\ {x.target : x \in Range(r.val.sense_relations)}
                            = {x.target : x \in Range(S.sense_relations)}
               ELSE ~r.ok /\ r.err.kind \in {"SynsetNotFound", "LexicalEntryNotFound"} /\ r.err.kind # "Internal"

\* get_sense was called with an id that is no sense and returned OewnError::Internal.
C9_Witness ==
    /\ result.op = "get_sense"
    /\ \A S \in SensesOf(resource) : result.args # <<S.id>>
    /\ ~result.ret.ok
    /\ result.ret.err.kind = "Internal"
    /\ get_synset(db, "syn9") = Err("SynsetNotFound", "syn9")

\* C10: a relation kind written to its TEXT column and read back is the kind that
\* was written, for every SenseRelType and every SynsetRelType.
C10_KindsRoundTrip ==
    codec.stage = "read" => codec.back = Ok(codec.kind)

\* DomainTopic was stored as "domaintopic" and read back as Other.
C10_Witness ==
    /\ codec.stage = "read"
    /\ codec.family = "sense"
    /\ codec.kind = "DomainTopic"
    /\ codec.text = "domaintopic"
    /\ codec.back = Ok("Other")

\* C11: decoding a relation kind returns Ok for every text, with the catch-all
\* variant for every text outside the recognised ones; a relation of the catch-all
\* kind is stored, and is returned by get_related_senses / get_related_synsets
\* called with the catch-all kind.
C11_DecodingTotalCatchAllKept ==
    LET RecognisedSenseRelTexts ==
            {"antonym", "also", "participle", "pertainym", "derivation", "domain_topic",
             "domain_member_topic", "domain_region", "domain_member_region",
             "exemplifies", "is_exemplified_by"}
        RecognisedSynsetRelTexts ==
            {"hypernym", "hyponym", "instance_hypernym", "instance_hyponym",
             "mero_member", "mero_part", "mero_substance", "holo_member", "holo_part",
             "holo_substance", "entails", "causes", "similar", "attribute",
             "domain_region", "domain_topic", "has_domain_region", "has_domain_topic",
             "exemplifies", "is_exemplified_by"}
        RelTypeTexts ==
            {"antonym", "Antonym", "domain_topic", "domaintopic", "other", "unknown",
             "instance_hypernym", "instancehypernym", "agent", "", "no such kind"}
    IN
    Committed =>
        /\ \A text \in RelTypeTexts \cup {r.rel_type : r \in db.sense_relations} :
              LET r == string_to_sense_rel_type(text)
              IN r.ok /\ (text \notin RecognisedSenseRelTexts => r.val = "Other")
        /\ \A text \in RelTypeTexts \cup {r.rel_type : r \in db.synset_relations} :
              LET r == string_to_synset_rel_type(text)
              IN r.ok /\ (text \notin RecognisedSynsetRelTexts => r.val = "Unknown")
        /\ \A x \in SensesOf(resource), t \in SensesOf(resource) :
              SenseRelation("Other", t.id) \in Range(x.sense_relations) =>
                 /\ \E row \in db.sense_relations :
                       row.source_sense_id = x.id /\ row.target_sense_id = t.id
                 /\ t.id \in {y.id : y \in Range(get_related_senses(db, x.id, "Other").val)}
        /\ \A X \in SynsetsOf(resource), T \in SynsetsOf(resource) :
              SynsetRelation("Unknown", T.id) \in Range(X.synset_relations) =>
                 /\ \E row \in db.synset_relations :
                       row.source_synset_id = X.id /\ row.target_synset_id = T.id
                 /\ T.id \in {y.id : y \in Range(get_related_synsets(db, X.id, "Unknown").val)}

\* s1 declares a relation of kind Other to s3, and get_related_senses(s1, Other)
\* returned s3.
C11_Witness ==
    /\ result.op = "get_related_senses"
    /\ result.args = <<"s1", "Other">>
    /\ \E x \in SensesOf(resource) :
          x.id = "s1" /\ SenseRelation("Other", "s3") \in Range(x.sense_relations)
    /\ result.ret.ok
    /\ "s3" \in {y.id : y \in Range(result.ret.val)}

\* C12: populate_database is atomic: while its transaction runs and after it has
\* failed the tables hold what they held before the call; after a failure the
\* transaction is gone; rows show only at the commit.
C12_PopulateAtomic ==
    /\ pc \in {"start", "pass1", "pass2", "pass3", "commit", "failed"} => db = EmptyTables
    /\ pc = "failed" => tx = NoTx
    /\ pc = "loaded" => tx = NoTx /\ db.lexicons # {}

\* A population failed in pass 2, on a sense id used twice, after pass 1 had
\* inserted the lexicons, entries and synsets; none of them is in the tables.
C12_Witness ==
    /\ pc = "failed"
    /\ \E a \in EntriesOf(resource), b \in EntriesOf(resource) :
          /\ a.id # b.id
          /\ \E x \in Range(a.senses), y \in Range(b.senses) : x.id = y.id
    /\ db = EmptyTables

\* C13: in the order of the inserts, an entry or synset row comes after the row of
\* its lexicon; a pass-2 row comes after every pass-1 row of the whole resource; a
\* relation row comes after every pass-2 row of the whole resource.
C13_DependencyOrder ==
    tx # NoTx =>
        LET log == tx.st.log
            res == resource
            Pass1Tables == {"lexicons", "lexical_entries", "synsets"}
            Pass2Tables ==
                {"pronunciations", "senses", "definitions", "ili_definitions", "examples"}
            Pass3Tables == {"sense_relations", "synset_relations"}
            Pass1Rows ==
                Len(res.lexicons) + Cardinality(EntriesOf(res)) + Cardinality(SynsetsOf(res))
            Pass2Rows ==
                Cardinality(
                    UNION {{<<e.id, "pronunciation", i>> : i \in 1..Len(e.pronunciations)}
                           \cup {<<e.id, "sense", i>> : i \in 1..Len(e.senses)} :
                           e \in EntriesOf(res)}
                    \cup
                    UNION {{<<y.id, "definition", i>> : i \in 1..Len(y.definitions)}
                           \cup {<<y.id, "ili", i>> : i \in 1..Len(y.ili_definition)}
                           \cup {<<y.id, "example", i>> : i \in 1..Len(y.examples)} :
                           y \in SynsetsOf(res)})
            before(i, tables) == Cardinality({j \in 1..(i - 1) : log[j].table \in tables})
        IN \A i \in 1..Len(log) :
              /\ log[i].table \in {"lexical_entries", "synsets"} =>
                    \E j \in 1..(i - 1), k \in 1..Len(res.lexicons) :
                       /\ log[j] = [table |-> "lexicons", key |-> res.lexicons[k].id]
                       /\ log[i].key \in
                            {e.id : e \in Range(res.lexicons[k].lexical_entries)}
                            \cup {y.id : y \in Range(res.lexicons[k].synsets)}
              /\ log[i].table \in Pass2Tables => before(i, Pass1Tables) = Pass1Rows
              /\ log[i].table \in Pass3Tables =>
                    /\ before(i, Pass1Tables) = Pass1Rows
                    /\ before(i, Pass2Tables) = Pass2Rows

\* A resource in two lexicons has gone through pass 2: the second lexicon's entry
\* was inserted after the first lexicon's, and its sense after both.
C13_Witness ==
    /\ pc = "pass3"
    /\ Len(resource.lexicons) = 2
    /\ \E i \in 1..Len(tx.st.log) : tx.st.log[i].table = "senses"
    /\ \E i \in 1..Len(tx.st.log) : tx.st.log[i].table = "definitions"

\* C16: a resource with a dangling reference (a sense aiming at a synset that is
\* never defined, a relation aiming at a target that is never defined) loads: the
\* population does not fail; the anomaly shows at query time only, as SynsetNotFound
\* from get_synset and as a target left out by get_related_senses /
\* get_related_synsets.
C16_DanglingTolerated ==
    resource \in DanglingResources =>
        /\ pc # "failed"
        /\ Committed =>
              /\ \A x \in SensesOf(resource) :
                    x.synset \notin {y.id : y \in SynsetsOf(resource)} =>
                       get_synset(db, x.synset) = Err("SynsetNotFound", x.synset)
              /\ \A x \in SensesOf(resource), k \in Args.sense_rel_type :
                    LET r == get_related_senses(db, x.id, k)
                    IN r.ok /\ {y.id : y \in Range(r.val)} \subseteq
                                 {y.id : y \in SensesOf(resource)}
              /\ \A X \in SynsetsOf(resource), k \in Args.synset_rel_type :
                    LET r == get_related_synsets(db, X.id, k)
                    IN r.ok /\ {y.id : y \in Range(r.val)} \subseteq
                                 {y.id : y \in SynsetsOf(resource)}

\* On a build whose SQLite enforces the declared foreign keys, the population of a
\* resource with a dangling reference has failed and nothing is stored.
C16_Witness ==
    /\ resource \in DanglingResources
    /\ foreign_keys
    /\ pc = "failed"
    /\ db = EmptyTables

\* C17: get_random_entry fails exactly when no entry is stored; otherwise it
\* returns Ok with a stored entry carrying its pronunciations and its senses, and
\* every stored entry is a possible result.
C17_RandomEntrySupport ==
    Committed =>
        LET outcomes == get_random_entry(db)
            stored == EntriesOf(resource)
        IN /\ outcomes # {}
           /\ (\E o \in outcomes : ~o.ok) <=> stored = {}
           /\ stored # {} =>
                 /\ \A o \in outcomes :
                       /\ o.ok
                       /\ \E E \in stored :
                             /\ o.val.id = E.id
                             /\ o.val.lemma = E.lemma
                             /\ Range(o.val.pronunciations) = Range(E.pronunciations)
                             /\ Len(o.val.pronunciations) <= Len(E.pronunciations)
                             /\ {x.id : x \in Range(o.val.senses)}
                                  = {x.id : x \in Range(E.senses)}
                 /\ {o.val.id : o \in outcomes} = {E.id : E \in stored}

\* With the entries w1 and w2 stored, get_random_entry returned w2 with its senses.
C17_Witness ==
    /\ result.op = "get_random_entry"
    /\ {E.id : E \in EntriesOf(resource)} = {"w1", "w2"}
    /\ result.ret.ok
    /\ result.ret.val.id = "w2"
    /\ result.ret.val.senses # <<>>

\* C18: all_entries returns every stored entry, each id exactly once, entries with
\* no sense and no pronunciation included, and Ok with an empty list when no entry
\* is stored.
C18_AllEntriesComplete ==
    Committed =>
        LET r == all_entries(db)
            stored == EntriesOf(resource)
        IN /\ r.ok
           /\ {<<x.id, x.lemma>> : x \in Range(r.val)} = {<<E.id, E.lemma>> : E \in stored}
           /\ Len(r.val) = Cardinality({E.id : E \in stored})
           /\ stored = {} => r.val = <<>>

\* all_entries returned two entries, one of them with no sense and no
\* pronunciation.
C18_Witness ==
    /\ result.op = "all_entries"
    /\ result.ret.ok
    /\ Len(result.ret.val) = 2
    /\ \E x \in Range(result.ret.val) : x.senses = <<>> /\ x.pronunciations = <<>>
    /\ \E x \in Range(result.ret.val) : x.senses # <<>>

\* C20: the synonyms print_sense_details prints for the written form W and the
\* synset X are the written forms of the entries owning the senses
\* get_senses_for_synset(X) returns, W left out, none repeated, in ascending order;
\* the lists of print_relation are in ascending order with none repeated.
C20_PrintedListsSortedDistinct ==
    Committed =>
        \A W \in Args.current_lemma \cup {E.lemma.written_form : E \in EntriesOf(resource)},
           X \in SynsetsOf(resource) :
            LET r == print_sense_details(db, W, X.id)
                members == {x.id : x \in Range(get_senses_for_synset(db, X.id).val)}
                owners == {E \in EntriesOf(resource) :
                              \E x \in Range(E.senses) : x.id \in members}
                Ascending(list) ==
                    \A i \in 1..Len(list), j \in 1..Len(list) :
                        i < j => StrLess(list[i], list[j])
            IN /\ r.ok
               /\ Range(r.val.synonyms) = {E.lemma.written_form : E \in owners} \ {W}
               /\ Ascending(r.val.synonyms)
               /\ Ascending(r.val.antonyms)
               /\ Ascending(r.val.hypernyms)
               /\ Ascending(r.val.hyponyms)

\* For the written form "dog" and a synset whose member senses belong to entries
\* written "cat" and "Cat", the synonyms printed are "Cat", "cat".
C20_Witness ==
    /\ result.op = "print_sense_details"
    /\ result.args = <<"dog", "syn1">>
    /\ result.ret.ok
    /\ result.ret.val.synonyms = <<"Cat", "cat">>

\* C14: whatever load_with_options does (a forced reload of a populated file, a
\* failing acquisition, parse or population included), the committed content a
\* reader sees is the complete dataset found at the call or the complete dataset of
\* the new resource, never an empty or a partial one.
C14_ReaderSeesOldOrNew ==
    load.stage = "load" =>
        LET Data(d) == [d EXCEPT !.metadata = {}]
        IN Data(db) \in {Data(load.prior), Data(Populated(resource))}

\* A forced reload of a populated file has failed at the acquisition of the XML
\* and a reader finds no entry.
C14_Witness ==
    /\ load.stage = "load"
    /\ load.force_reload
    /\ load.prior.lexical_entries # {}
    /\ pc = "failed"
    /\ result.op = "all_entries"
    /\ result.ret = Ok(<<>>)

\* C15: with force_reload on an existing file every row of the data tables is
\* deleted before the first row of the new resource is inserted, metadata is left
\* as initialize_database left it, and after a successful load the tables hold the
\* rows of the new resource and no other.
C15_ForcedReloadReplaces ==
    (load.stage = "load" /\ load.force_reload /\ load.db_exists /\ load.initialized) =>
        /\ db.metadata = initialize_database(load.prior).val.metadata
        /\ pc \in {"acquire", "parse", "start", "pass1", "pass2", "pass3", "commit", "failed"}
              => [db EXCEPT !.metadata = {}] = [EmptyTables EXCEPT !.metadata = {}]
        /\ (tx # NoTx /\ tx.st.log = <<>>)
              => [tx.st.t EXCEPT !.metadata = {}] = [EmptyTables EXCEPT !.metadata = {}]
        /\ pc = "loaded" =>
              /\ {x.id : x \in db.lexicons} = {l.id : l \in Range(resource.lexicons)}
              /\ {x.id : x \in db.lexical_entries} = {E.id : E \in EntriesOf(resource)}
              /\ {x.id : x \in db.synsets} = {y.id : y \in SynsetsOf(resource)}
              /\ {x.id : x \in db.senses} = {x.id : x \in SensesOf(resource)}
              /\ {<<x.source_sense_id, x.target_sense_id>> : x \in db.sense_relations}
                   = UNION {{<<x.id, r.target>> : r \in Range(x.sense_relations)}
                              : x \in SensesOf(resource)}
              /\ {<<x.source_synset_id, x.target_synset_id>> : x \in db.synset_relations}
                   = UNION {{<<y.id, r.target>> : r \in Range(y.synset_relations)}
                              : y \in SynsetsOf(resource)}
              /\ {x.entry_id : x \in Range(db.pronunciations)}
                   = {E.id : E \in {F \in EntriesOf(resource) : F.pronunciations # <<>>}}

\* A forced reload replaced a populated file holding three senses and two sense
\* relations by a resource of two senses and no relation.
C15_Witness ==
    /\ load.stage = "load"
    /\ load.force_reload
    /\ Cardinality(load.prior.senses) = 3
    /\ load.prior.sense_relations # {}
    /\ pc = "loaded"
    /\ Cardinality(db.senses) = 2
    /\ db.sense_relations = {}

C21_PopulatesIffNeeded ==
    (load.stage = "load" /\ load.initialized) =>
        LET needed == ~load.db_exists \/ load.force_reload \/ load.prior.lexicons = {}
            Data(d) == [d EXCEPT !.metadata = {}]
        IN /\ load.needs_population = needed
           /\ (load.acquired \/ load.parsed \/ tx # NoTx) => needed
           /\ (needed /\ pc \notin {"clear", "acquire"}) => load.acquired
           /\ (needed /\ pc \in {"start", "pass1", "pass2", "pass3", "commit", "loaded"})
                 => load.parsed
           /\ ~needed =>
                 /\ pc = "loaded"
                 /\ ~load.acquired /\ ~load.parsed /\ tx = NoTx
                 /\ Data(db) = Data(load.prior)

\* A load without force_reload found a populated file and returned the handle
\* without acquiring the XML.
C21_Witness ==
    /\ load.stage = "load"
    /\ load.db_exists /\ ~load.force_reload
    /\ load.prior.lexicons # {}
    /\ pc = "loaded"
    /\ ~load.acquired
    /\ db.lexical_entries = load.prior.lexical_entries

\* C22: after a successful initialize_database the metadata table holds exactly
\* one schema_version row, whose value is the larger of the previous version and
\* SCHEMA_VERSION (inserted when absent, overwritten when older, unchanged when
\* equal or newer); the call changes no row of a data table, and calling it again
\* changes nothing.
C22_SchemaVersionMonotone ==
    (load.stage = "load" /\ load.initialized) =>
        LET previous == {m.value : m \in {x \in load.prior.metadata : x.key = "schema_version"}}
            after == initialize_database(load.prior).val
            expected == IF previous \subseteq {"0", "1"} THEN "1" ELSE "2"
            Data(d) == [d EXCEPT !.metadata = {}]
        IN /\ previous \subseteq {"0", "1", "2"}
           /\ db.metadata = {[key |-> "schema_version", value |-> expected]}
           /\ after.metadata = db.metadata
           /\ Data(after) = Data(load.prior)
           /\ initialize_database(db) = Ok(db)

C22_Witness ==
    /\ load.stage = "load" /\ load.initialized
    /\ load.prior.metadata = {[key |-> "schema_version", value |-> "2"]}
    /\ db.metadata = {[key |-> "schema_version", value |-> "2"]}
    /\ pc = "loaded"
\* C23: the entries lookup_entries, all_entries and get_entry_by_id return carry
\* the stored pronunciations, senses and relations of each sense (kind and
\* target as the rows hold them), none more than once however many join rows
\* repeat it, and an empty list where no child is stored; the same holds for the
\* definitions, examples and relations of the Synset get_synset returns.
C23_JoinRowsReaggregated ==
    Committed =>
        LET Prons(id) == SelectSeq(db.pronunciations, LAMBDA p : p.entry_id = id)
            Stored(id) == {s \in db.senses : s.entry_id = id}
            Rels(id) == {r \in db.sense_relations : r.source_sense_id = id}
            Defs(id) == SelectSeq(db.definitions, LAMBDA x : x.synset_id = id)
            Exs(id) == SelectSeq(db.examples, LAMBDA x : x.synset_id = id)
            SynRels(id) == {r \in db.synset_relations : r.source_synset_id = id}
            Right(X) ==
                /\ Range(X.pronunciations) = {DecodePronunciation(p) : p \in Range(Prons(X.id))}
                /\ Len(X.pronunciations) <= Len(Prons(X.id))
                /\ {<<s.id, s.synset>> : s \in Range(X.senses)}
                      = {<<s.id, s.synset_id>> : s \in Stored(X.id)}
                /\ Len(X.senses) = Cardinality(Stored(X.id))
                /\ \A s \in Range(X.senses) :
                      /\ {<<sense_rel_type_to_string(r.rel_type), r.target>>
                            : r \in Range(s.sense_relations)}
                           = {<<r.rel_type, r.target_sense_id>> : r \in Rels(s.id)}
                      /\ Len(s.sense_relations) <= Cardinality(Rels(s.id))
        IN /\ \A le \in db.lexical_entries :
                LET looked == lookup_entries(db, le.lemma_written_form, None)
                    all == all_entries(db)
                    one == get_entry_by_id(db, le.id)
                IN /\ looked.ok /\ all.ok /\ one.ok /\ Len(one.val) = 1
                   /\ \E X \in Range(looked.val) : X.id = le.id
                   /\ \E X \in Range(all.val) : X.id = le.id
                   /\ one.val[1].id = le.id
                   /\ \A X \in Range(looked.val) \cup Range(all.val) \cup Range(one.val) :
                         Right(X)
           /\ \A y \in db.synsets :
                LET r == get_synset(db, y.id)
                IN /\ r.ok
                   /\ Range(r.val.definitions) = {DecodeDetail(x) : x \in Range(Defs(y.id))}
                   /\ Len(r.val.definitions) <= Len(Defs(y.id))
                   /\ Range(r.val.examples) = {DecodeDetail(x) : x \in Range(Exs(y.id))}
                   /\ Len(r.val.examples) <= Len(Exs(y.id))
                   /\ {<<synset_rel_type_to_string(x.rel_type), x.target>>
                         : x \in Range(r.val.synset_relations)}
                        = {<<x.rel_type, x.target_synset_id>> : x \in SynRels(y.id)}
                   /\ Len(r.val.synset_relations) <= Cardinality(SynRels(y.id))

\* lookup_entries returned an entry with two pronunciations and two senses, one
\* with two relations and one with none, beside which the tables hold an entry
\* with no child at all.
C23_Witness ==
    /\ result.op = "lookup_entries"
    /\ result.ret.ok
    /\ \E X \in Range(result.ret.val) :
          /\ Len(X.pronunciations) = 2
          /\ Len(X.senses) = 2
          /\ \E s \in Range(X.senses) : Len(s.sense_relations) = 2
          /\ \E s \in Range(X.senses) : s.sense_relations = <<>>
    /\ Cardinality({r \in db.synset_relations : r.source_synset_id = "syn1"}) = 2
    /\ Len(db.examples) = 2

\* C24: for every stored entry the entry of that id in lookup_entries of its
\* written form, the one in all_entries and the one get_entry_by_id returns have
\* the same lemma, the same set of pronunciations and the same set of senses, and
\* that set of senses is the one get_senses_for_entry returns.
C24_MaterializationsAgree ==
    Committed =>
        \A le \in db.lexical_entries :
            LET looked == lookup_entries(db, le.lemma_written_form, None)
                all == all_entries(db)
                one == get_entry_by_id(db, le.id)
                senses == get_senses_for_entry(db, le.id)
                SenseSet(seq) ==
                    {<<s.id, s.synset, Range(s.sense_relations)>> : s \in Range(seq)}
                View(X) == <<X.lemma, Range(X.pronunciations), SenseSet(X.senses)>>
            IN /\ looked.ok /\ all.ok /\ one.ok /\ senses.ok /\ Len(one.val) = 1
               /\ \A a \in {X \in Range(looked.val) : X.id = le.id},
                     b \in {X \in Range(all.val) : X.id = le.id} :
                       /\ View(a) = View(b)
                       /\ View(a) = View(one.val[1])
                       /\ SenseSet(a.senses) = SenseSet(senses.val)
               /\ Cardinality({i \in 1..Len(looked.val) : looked.val[i].id = le.id}) = 1
               /\ Cardinality({i \in 1..Len(all.val) : all.val[i].id = le.id}) = 1

\* get_entry_by_id returned an entry with a pronunciation and a sense that has a
\* relation, which lookup_entries and all_entries return as well.
C24_Witness ==
    /\ result.op = "get_entry_by_id"
    /\ result.ret.ok
    /\ Len(result.ret.val) = 1
    /\ result.ret.val[1].pronunciations # <<>>
    /\ \E s \in Range(result.ret.val[1].senses) : s.sense_relations # <<>>
    /\ \E X \in Range(all_entries(db).val) : X.id = result.ret.val[1].id
\* C25: in the committed tables no two lexical entries, no two senses and no two
\* synsets share an id, and no two relation rows share source, target and kind.
\* A resource that repeats the id of a lexicon, an entry, a sense or a synset is
\* never committed; a resource that repeats none and has no dangling reference
\* never fails, and a relation it declares twice is stored once.
C25_IdentifiersUnique ==
    LET Lex == DOMAIN resource.lexicons
        EntryAt == UNION {{<<i, j>> : j \in DOMAIN resource.lexicons[i].lexical_entries}
                            : i \in Lex}
        Entry(p) == resource.lexicons[p[1]].lexical_entries[p[2]]
        SenseAt == UNION {{<<p, k>> : k \in DOMAIN Entry(p).senses} : p \in EntryAt}
        SynsetAt == UNION {{<<i, j>> : j \in DOMAIN resource.lexicons[i].synsets} : i \in Lex}
        RepeatsId ==
            \/ Cardinality({resource.lexicons[i].id : i \in Lex}) < Cardinality(Lex)
            \/ Cardinality({Entry(p).id : p \in EntryAt}) < Cardinality(EntryAt)
            \/ Cardinality({Entry(q[1]).senses[q[2]].id : q \in SenseAt}) < Cardinality(SenseAt)
            \/ Cardinality({resource.lexicons[p[1]].synsets[p[2]].id : p \in SynsetAt})
                  < Cardinality(SynsetAt)
        SynsetIds == {y.id : y \in SynsetsOf(resource)}
        SenseIdsOf == {x.id : x \in SensesOf(resource)}
        Dangling ==
            \/ \E x \in SensesOf(resource) :
                  \/ x.synset \notin SynsetIds
                  \/ \E r \in Range(x.sense_relations) : r.target \notin SenseIdsOf
            \/ \E y \in SynsetsOf(resource) :
                  \E r \in Range(y.synset_relations) : r.target \notin SynsetIds
        Declared == UNION {{SenseRelationRow(x, r) : r \in Range(x.sense_relations)}
                             : x \in SensesOf(resource)}
        DeclaredSynset ==
            UNION {{SynsetRelationRow(y, r) : r \in Range(y.synset_relations)}
                     : y \in SynsetsOf(resource)}
    IN /\ \A table \in {"lexicons", "lexical_entries", "senses", "synsets"} :
             \A a \in db[table], b \in db[table] : a.id = b.id => a = b
       /\ Cardinality({<<r.source_sense_id, r.target_sense_id, r.rel_type>>
                            : r \in db.sense_relations}) = Cardinality(db.sense_relations)
       /\ Cardinality({<<r.source_synset_id, r.target_synset_id, r.rel_type>>
                            : r \in db.synset_relations}) = Cardinality(db.synset_relations)
       /\ RepeatsId => pc \notin {"commit", "loaded"} /\ db = EmptyTables
       /\ (~RepeatsId /\ ~Dangling) => pc # "failed"
       /\ (pc = "loaded" /\ ~Dangling) =>
             /\ db.sense_relations = Declared
             /\ db.synset_relations = DeclaredSynset

\* A resource in which one sense declares the same relation twice was committed,
\* and the relation is stored once.
C25_Witness ==
    /\ pc = "loaded"
    /\ \E x \in SensesOf(resource) :
          /\ Len(x.sense_relations) = 2
          /\ x.sense_relations[1] = x.sense_relations[2]
          /\ Cardinality({r \in db.sense_relations : r.source_sense_id = x.id}) = 1
\* C26: with two load_with_options calls on one path that is absent or empty at
\* first, the committed tables hold no row of the resource or each of its rows
\* once; a call that returns Ok returns a handle over the fully populated tables;
\* and once both calls have returned, one of them Ok, the tables are fully
\* populated.
C26_ConcurrentLoadsSafe ==
    load.stage = "two_loads" =>
        LET Data(d) == [d EXCEPT !.metadata = {}]
            Full == Data(Populated(resource))
            Returned(t) == threads[t].stage = "done"
        IN /\ Data(db) \in {Data(EmptyTables), Full}
           /\ \A t \in 1..MaxThreads :
                 (Returned(t) /\ threads[t].ret.ok) => Data(threads[t].ret.val) = Full
           /\ ((\A t \in 1..MaxThreads : Returned(t))
                 /\ (\E t \in 1..MaxThreads : threads[t].ret.ok)) => Data(db) = Full

\* Neither call forced a reload, both found the lexicons table empty and went on
\* to populate; one committed and returned Ok, the other returned an error, and
\* the tables hold the resource once.
C26_Witness ==
    /\ load.stage = "two_loads"
    /\ \A t \in 1..MaxThreads :
          /\ ~threads[t].force_reload
          /\ threads[t].needs_population
          /\ threads[t].stage = "done"
    /\ \E t \in 1..MaxThreads : threads[t].ret.ok
    /\ \E t \in 1..MaxThreads : ~threads[t].ret.ok
    /\ db = Populated(resource)
C28_OnlyNecessarySteps ==
    (load.stage = "data" /\ load.calls > 0) =>
        /\ load.before.xml.exists => load.steps = <<>>
        /\ (~load.before.xml.exists /\ load.before.gz.exists)
              => load.steps \in {<<>>, <<"decompress">>}
        /\ (~load.before.xml.exists /\ ~load.before.gz.exists)
              => load.steps \in {<<>>, <<"download">>, <<"download", "decompress">>}
        /\ (load.at = "idle" /\ load.ret.ok) =>
              /\ load.ret.val = "english-wordnet-2024.xml"
              /\ load.xml.exists
              /\ load.before.xml.exists \/ load.steps[Len(load.steps)] = "decompress"
              /\ load.before.xml.exists =>
                    load.gz = load.before.gz /\ load.xml = load.before.xml
        /\ (load.at = "idle" /\ ~load.ret.ok) =>
              /\ load.steps # <<>>
              /\ DOMAIN load.ret = {"ok", "err"}
        /\ load.at = "download" => load.steps = <<>>
        /\ load.at = "decompress" => load.steps \in {<<>>, <<"download">>} /\ load.gz.exists

\* With only the .gz in the data directory, ensure_data decompressed it without
\* a download and returned the path of the XML file.
C28_Witness ==
    /\ load.stage = "data"
    /\ load.at = "idle"
    /\ load.before.gz.exists /\ ~load.before.xml.exists
    /\ load.steps = <<"decompress">>
    /\ load.ret = Ok("english-wordnet-2024.xml")
    /\ load.xml = [exists |-> TRUE, chunks |-> ArchiveChunks]

\* C29: whatever failed in earlier calls, an ensure_data that returns Ok returns
\* the path of a complete XML document, the decompression of the whole archive;
\* a .gz or .xml file a failed step left behind is not taken for the data file.
C29_FailuresNotMistaken ==
    (load.stage = "data" /\ load.at = "idle" /\ load.calls > 0 /\ load.ret.ok) =>
        load.xml = [exists |-> TRUE, chunks |-> ArchiveChunks]

\* A decompression failed part-way and left an incomplete XML file; the next
\* call found the file.
C29_Witness ==
    /\ load.stage = "data"
    /\ load.at = "idle"
    /\ load.calls > 1
    /\ load.before.xml.exists
    /\ load.before.xml.chunks < ArchiveChunks
    /\ load.steps = <<>>
====
